---- MODULE Spec2Model ----
(***************************************************************************)
(* Verification model of the godcoin ledger (crates/godcoin/src/blockchain *)
(* /mod.rs): block insertion, block and transaction validation, indexing   *)
(* of receipts into the state indexer, and the fee curves.                 *)
(*                                                                         *)
(* Assets are signed fixed-point integers.  The model keeps the checked    *)
(* arithmetic of the code but narrows the integer range from i64 to        *)
(* [MIN_AMOUNT, MAX_AMOUNT] and the fixed-point scale from 10^5 to SCALE.  *)
(***************************************************************************)
EXTENDS Integers, Sequences, FiniteSets, TLC

(***************************************************************************)
(* Bounds of the model.                                                    *)
(***************************************************************************)
MaxHeight == 2
MaxReceipts == 2
MAX_AMOUNT == 15
MIN_AMOUNT == 0 - MAX_AMOUNT - 1

(***************************************************************************)
(* Program constants (constants.rs, account.rs, asset.rs).                 *)
(***************************************************************************)
SCALE == 2
GRAEL_FEE_MIN == 1
GRAEL_FEE_MULT == 2 * SCALE
GRAEL_FEE_NET_MULT == 2 * SCALE
FEE_RESET_WINDOW == 4
NETWORK_FEE_AVG_WINDOW == 10
U16_MAX == 65535
MAX_TX_SIGNATURES == 8
MAX_SCRIPT_BYTE_SIZE == 2048
MAX_MEMO_BYTE_SIZE == 1024
MAX_PERM_KEYS == 8
IMMUTABLE_ACCOUNT_THRESHOLD == 255

(***************************************************************************)
(* Option values: None is the empty tuple, Some(x) the one-element tuple.  *)
(***************************************************************************)
None == <<>>
Some(x) == <<x>>
IsSome(o) == Len(o) = 1
Unwrap(o) == o[1]

(***************************************************************************)
(* Asset: checked arithmetic, None on overflow.                            *)
(***************************************************************************)
InRange(n) == MIN_AMOUNT <= n /\ n <= MAX_AMOUNT

checked_add(a, b) == IF InRange(a + b) THEN Some(a + b) ELSE None

checked_sub(a, b) == IF InRange(a - b) THEN Some(a - b) ELSE None

\* truncating division of the product by the fixed-point scale
TruncDiv(n, d) == IF n >= 0 THEN n \div d ELSE 0 - ((0 - n) \div d)

checked_mul(a, b) ==
    IF InRange(TruncDiv(a * b, SCALE)) THEN Some(TruncDiv(a * b, SCALE)) ELSE None

RECURSIVE checked_pow(_, _)
checked_pow(a, n) ==
    IF n = 0 THEN Some(SCALE)
    ELSE LET r == checked_pow(a, n - 1)
         IN  IF IsSome(r) THEN checked_mul(Unwrap(r), a) ELSE None

(***************************************************************************)
(* Keys, scripts and script hashes.                                        *)
(***************************************************************************)
Keys == {"K0", "K1"}
Addrs == {"W0", "A1", "A2", "A3"}

GenesisScript == [code |-> "genesis", len |-> 140]
UserScript == [code |-> "user", len |-> 36]
FalseScript == [code |-> "false", len |-> 2]
BigScript == [code |-> "big", len |-> MAX_SCRIPT_BYTE_SIZE + 1]

\* ScriptHash::from(&Script): an injective digest of the script bytes
ScriptHash(script) ==
    CASE script.code = "genesis" -> "W0"
      [] script.code = "user" -> "A1"
      [] script.code = "false" -> "A2"
      [] script.code = "big" -> "A3"

(***************************************************************************)
(* Errors and results.                                                     *)
(***************************************************************************)
\* Result<T, E>; a panic (unwrap on None, todo!()) is a third outcome
Ok(v) == [tag |-> "Ok", val |-> v]
Err(e) == [tag |-> "Err", err |-> e]
PanickedIn(fn) == [tag |-> "Panic", in |-> fn]
Panicked == PanickedIn("execute_tx")
IsOk(r) == r.tag = "Ok"
IsErr(r) == r.tag = "Err"

\* TxErr; ScriptEval carries the EvalErrType of the failed evaluation
TxErr(kind) == [kind |-> kind, eval |-> "-"]
ScriptEvalErr(e) == [kind |-> "ScriptEval", eval |-> e]

\* BlockErr; Tx carries the TxErr of the failed receipt
BlockErr(kind) == [block |-> kind, tx |-> TxErr("-")]
BlockErrTx(e) == [block |-> "Tx", tx |-> e]

\* the outcome of an Option-returning call that ran into todo!()
TodoPanic == <<0, 0>>
IsPanic(o) == Len(o) = 2

(***************************************************************************)
(* Transactions.  signature_pairs is kept as the number of pairs and       *)
(* whether they satisfy the signature checks of the transaction's script.  *)
(***************************************************************************)
Tx(fee, nsigs, sig_ok) == [fee |-> fee, nsigs |-> nsigs, sig_ok |-> sig_ok]

OwnerTx(base, minter, wallet, script) ==
    [type |-> "Owner", base |-> base, minter |-> minter, wallet |-> wallet,
     script |-> script]

MintTx(base, to, amount, script) ==
    [type |-> "Mint", base |-> base, to |-> to, amount |-> amount,
     script |-> script]

CreateAccountTx(base, creator, id, threshold, nkeys) ==
    [type |-> "CreateAccount", base |-> base, creator |-> creator,
     account |-> [id |-> id,
                  permissions |-> [threshold |-> threshold, keys |-> nkeys]]]

TransferTx(base, from, script, amount, memo, arg_to, arg_amt) ==
    [type |-> "Transfer", base |-> base, from |-> from, script |-> script,
     amount |-> amount, memo |-> memo,
     args |-> [to |-> arg_to, amount |-> arg_amt]]

LogTransfer(to, amount) == [to |-> to, amount |-> amount]
Receipt(tx, log) == [tx |-> tx, log |-> log]

HasScript(tx) == tx.type \in {"Owner", "Mint", "Transfer"}

(***************************************************************************)
(* Blocks.  A digest is the one-element tuple of the value it is taken     *)
(* over (collision free); the zero digest is the empty tuple.              *)
(***************************************************************************)
ZeroDigest == <<>>
Digest(x) == <<x>>

calc_receipt_root(receipts) == Digest(receipts)

Header(block) ==
    [height |-> block.height, previous_hash |-> block.previous_hash,
     receipt_root |-> block.receipt_root]

calc_header_hash(block) == Digest(Header(block))

\* a detached signature: who made it and over which digest
SigPair(key, over) == [pub_key |-> key, signature |-> [by |-> key, over |-> over]]
ForgedSigPair(key) == [pub_key |-> key, signature |-> [by |-> "nobody", over |-> ZeroDigest]]

SigVerify(pair, msg) == pair.signature.by = pair.pub_key /\ pair.signature.over = msg

verify_receipt_root(block) == block.receipt_root = calc_receipt_root(block.receipts)

verify_previous_hash(block, prev_block) ==
    block.previous_hash = calc_header_hash(prev_block)

Block(height, previous_hash, receipt_root, rewards, receipts, signer) ==
    [height |-> height, previous_hash |-> previous_hash,
     receipt_root |-> receipt_root, rewards |-> rewards,
     receipts |-> receipts, signer |-> signer]

(***************************************************************************)
(* State.                                                                  *)
(*   store         BlockStore: the append-only block log                   *)
(*   owner         Indexer: the owner transaction (None before genesis)    *)
(*   chain_height  Indexer: the chain height                               *)
(*   token_supply  Indexer: the token supply                               *)
(*   balances      Indexer: the balance of every address                   *)
(*   accounts      Indexer: the account records                            *)
(*   result        what the last insert_block call returned                *)
(*   tx_result     the last execute_tx call and what it returned           *)
(*   lock          the holder of the block-store mutex                     *)
(*   pc, local     per thread: position in insert_block and its locals     *)
(***************************************************************************)
VARIABLES store, owner, chain_height, token_supply, balances, accounts,
          result, tx_result, lock, pc, local

ledger == <<store, owner, chain_height, token_supply, balances, accounts>>
threads == <<lock, pc, local>>

(***************************************************************************)
(* The replication peers and the script engine.                            *)
(*   current_term, voted_for, role, log_view, commit_index   per peer      *)
(*   next_index, match_index   per leader and peer                         *)
(*   pre_votes, votes          per peer: the approvals gathered so far     *)
(*   leaders                   history: every (term, peer) that was Leader *)
(*   script_result             the last ScriptEngine::eval and its result  *)
(***************************************************************************)
VARIABLES current_term, voted_for, role, log_view, commit_index, next_index,
          match_index, pre_votes, votes, leaders, script_result

raft == <<current_term, voted_for, role, log_view, commit_index, next_index,
          match_index, pre_votes, votes, leaders>>

(***************************************************************************)
(* The minter and the client connections.                                  *)
(*   txs            Minter: the pending transactions, in order of arrival  *)
(*   minter_result  what the last message to the minter returned           *)
(*   accepted       history: every transaction PushTx answered Ok, in order*)
(*   fee_log        history: get_network_fee before each insert_block      *)
(*   conn_filter    per connection: the block filter (None when unset)     *)
(*   rpc_result     the last client message and the answer to it           *)
(***************************************************************************)
VARIABLES txs, minter_result, accepted, fee_log, conn_filter, rpc_result

server == <<txs, minter_result, accepted, fee_log, conn_filter, rpc_result>>

rest == <<raft, script_result, server>>

vars == <<store, owner, chain_height, token_supply, balances, accounts,
          result, tx_result, lock, pc, local, rest>>

Peers == {"X", "Y", "Z"}
NoPeer == "null"

PeersInit ==
    /\ current_term = [p \in Peers |-> 0]
    /\ voted_for = [p \in Peers |-> NoPeer]
    /\ role = [p \in Peers |-> "Follower"]
    /\ log_view = [p \in Peers |-> <<>>]
    /\ commit_index = [p \in Peers |-> 0]
    /\ next_index = [p \in Peers |-> [q \in Peers |-> 1]]
    /\ match_index = [p \in Peers |-> [q \in Peers |-> 0]]
    /\ pre_votes = [p \in Peers |-> {}]
    /\ votes = [p \in Peers |-> {}]
    /\ leaders = {}

NoScriptResult ==
    [kind |-> "none", script |-> <<>>, tx |-> <<>>, build |-> "release",
     res |-> [tag |-> "None", value |-> FALSE, err |-> "", pos |-> 0]]

EngineInit == script_result = NoScriptResult

Conns == {"c1", "c2"}

NoMinterResult == [op |-> "none", res |-> [tag |-> "None"]]
NoRpcResult == [kind |-> "none"]

ServerInit ==
    /\ txs = <<>>
    /\ minter_result = NoMinterResult
    /\ accepted = <<>>
    /\ fee_log = <<>>
    /\ conn_filter = [c \in Conns |-> <<>>]
    /\ rpc_result = NoRpcResult

Threads == {"t1", "t2"}
NoThread == "none"

(***************************************************************************)
(* BlockStore and Indexer reads.                                           *)
(***************************************************************************)
\* BlockStore::get_chain_height: the height of the last block of the log
store_get_chain_height == store[Len(store)].height

\* BlockStore::get: the block the height index points to, the index entry of
\* a height being the last block of the log inserted at that height
store_get(height) ==
    LET at == {i \in DOMAIN store : store[i].height = height}
    IN  IF at = {} THEN None
        ELSE Some(store[CHOOSE i \in at : \A j \in at : j <= i])

get_block(height) == store_get(height)

get_chain_head == Unwrap(store_get(store_get_chain_height))

get_chain_height == chain_height

get_owner == Unwrap(owner)

indexer_get_balance(addr) == balances[addr]

indexer_get_account(id) == IF id \in DOMAIN accounts THEN Some(accounts[id]) ELSE None

IsTransferFrom(receipt, addr) ==
    receipt.tx.type = "Transfer" /\ receipt.tx.from = addr

(***************************************************************************)
(* get_balance: the indexed balance plus the effects of the receipts that  *)
(* precede the transaction in its block.                                   *)
(***************************************************************************)
RECURSIVE LogCredit(_, _, _, _)
LogCredit(bal, log, addr, i) ==
    IF i > Len(log) \/ ~IsSome(bal) THEN bal
    ELSE LogCredit(IF log[i].to = addr
                   THEN checked_add(Unwrap(bal), log[i].amount)
                   ELSE bal, log, addr, i + 1)

BalanceAfter(bal, receipt, addr) ==
    LET tx == receipt.tx
    IN  CASE tx.type = "Owner" -> Some(bal)
          [] tx.type = "Mint" ->
                IF tx.to = addr THEN checked_add(bal, tx.amount) ELSE Some(bal)
          [] tx.type = "CreateAccount" -> TodoPanic
          [] tx.type = "Transfer" ->
                LET b1 == IF tx.from = addr THEN checked_sub(bal, tx.base.fee)
                          ELSE Some(bal)
                    b2 == IF tx.from = addr /\ IsSome(b1)
                          THEN checked_sub(Unwrap(b1), tx.amount) ELSE b1
                IN  LogCredit(b2, receipt.log, addr, 1)

RECURSIVE BalanceFold(_, _, _, _)
BalanceFold(bal, receipts, addr, i) ==
    IF i > Len(receipts) \/ ~IsSome(bal) THEN bal
    ELSE BalanceFold(BalanceAfter(Unwrap(bal), receipts[i], addr),
                     receipts, addr, i + 1)

get_balance(addr, additional_receipts) ==
    BalanceFold(Some(indexer_get_balance(addr)), additional_receipts, addr, 1)

(***************************************************************************)
(* Fee curves.                                                             *)
(***************************************************************************)
RECURSIVE CountMatches(_, _, _)
CountMatches(receipts, addr, i) ==
    IF i > Len(receipts) THEN 0
    ELSE (IF IsTransferFrom(receipts[i], addr) THEN 1 ELSE 0)
         + CountMatches(receipts, addr, i + 1)

HasCreateAccount(receipts) ==
    \E i \in DOMAIN receipts : receipts[i].tx.type = "CreateAccount"

\* the loop of get_address_fee from height i down to genesis: the number of
\* matches counted, given the delta accumulated so far
\* the loop of get_address_fee with a delta that no match resets
RECURSIVE AddressFeeScan_no_restart(_, _, _)
AddressFeeScan_no_restart(addr, i, delta) ==
    LET block == Unwrap(get_block(i))
        n == CountMatches(block.receipts, addr, 1)
        d == delta + 1
    IN  IF d = FEE_RESET_WINDOW \/ i = 0 THEN n
        ELSE n + AddressFeeScan_no_restart(addr, i - 1, d)

RECURSIVE AddressFeeScan(_, _, _)
AddressFeeScan(addr, i, delta) ==
    LET block == Unwrap(get_block(i))
        n == CountMatches(block.receipts, addr, 1)
        d == IF n > 0 THEN 0 ELSE delta + 1
    IN  IF d = FEE_RESET_WINDOW \/ i = 0 THEN n
        ELSE n + AddressFeeScan(addr, i - 1, d)

\* the count of get_address_fee when its loops have ended
AddressFeeCount(addr, additional_receipts) ==
    1 + CountMatches(additional_receipts, addr, 1)
      + AddressFeeScan(addr, get_chain_height, 0)

get_address_fee(addr, additional_receipts) ==
    LET count == AddressFeeCount(addr, additional_receipts)
        mult == checked_pow(GRAEL_FEE_MULT, count)
    IN  IF IsSome(mult) THEN checked_mul(GRAEL_FEE_MIN, Unwrap(mult)) ELSE None

RECURSIVE ReceiptCount(_, _)
ReceiptCount(lo, hi) ==
    IF lo > hi THEN 0
    ELSE Len(Unwrap(get_block(lo)).receipts) + ReceiptCount(lo + 1, hi)

\* get_network_fee that takes the chain height as it is
get_network_fee_every_block ==
    LET max_height == get_chain_height
        min_height == IF max_height > NETWORK_FEE_AVG_WINDOW
                      THEN max_height - NETWORK_FEE_AVG_WINDOW ELSE 0
        count == (1 + ReceiptCount(min_height, max_height)) \div NETWORK_FEE_AVG_WINDOW
        mult == IF count > U16_MAX THEN None
                ELSE checked_pow(GRAEL_FEE_NET_MULT, count)
    IN  IF IsSome(mult) THEN checked_mul(GRAEL_FEE_MIN, Unwrap(mult)) ELSE None

\* get_network_fee whose window leaves out the block at max_height - WINDOW
get_network_fee_short_window ==
    LET max_height == get_chain_height - (get_chain_height % 5)
        min_height == IF max_height > NETWORK_FEE_AVG_WINDOW
                      THEN max_height - NETWORK_FEE_AVG_WINDOW + 1 ELSE 0
        count == (1 + ReceiptCount(min_height, max_height)) \div NETWORK_FEE_AVG_WINDOW
        mult == IF count > U16_MAX THEN None
                ELSE checked_pow(GRAEL_FEE_NET_MULT, count)
    IN  IF IsSome(mult) THEN checked_mul(GRAEL_FEE_MIN, Unwrap(mult)) ELSE None

get_network_fee ==
    LET max_height == get_chain_height - (get_chain_height % 5)
        min_height == IF max_height > NETWORK_FEE_AVG_WINDOW
                      THEN max_height - NETWORK_FEE_AVG_WINDOW ELSE 0
        count == (1 + ReceiptCount(min_height, max_height)) \div NETWORK_FEE_AVG_WINDOW
        mult == IF count > U16_MAX THEN None
                ELSE checked_pow(GRAEL_FEE_NET_MULT, count)
    IN  IF IsSome(mult) THEN checked_mul(GRAEL_FEE_MIN, Unwrap(mult)) ELSE None

\* AddressInfo, or None when a fee or the balance cannot be computed
get_address_info(addr, additional_receipts) ==
    LET net_fee == get_network_fee
        addr_fee == get_address_fee(addr, additional_receipts)
        balance == get_balance(addr, additional_receipts)
    IN  IF ~IsSome(net_fee) THEN None
        ELSE IF HasCreateAccount(additional_receipts) THEN TodoPanic
        ELSE IF ~IsSome(addr_fee) THEN None
        ELSE IF ~IsSome(balance) THEN balance
        ELSE Some([net_fee |-> Unwrap(net_fee), addr_fee |-> Unwrap(addr_fee),
                   balance |-> Unwrap(balance)])

total_fee(info) == checked_add(info.net_fee, info.addr_fee)

(***************************************************************************)
(* Script evaluation of a transaction.  The script is one of the scripts   *)
(* of the model: the genesis wallet script and a user wallet script (a     *)
(* signature check that fails fast, then OpTransfer of the call arguments) *)
(* and a script that pushes False.                                         *)
(***************************************************************************)
ScriptEval(tx, script) ==
    IF script.code = "false" \/ ~tx.base.sig_ok THEN Err("ScriptRetFalse")
    ELSE IF tx.type # "Transfer" THEN Ok(<<>>)
    ELSE IF tx.args.amount < 0 \/ tx.args.amount > tx.amount THEN Err("Arithmetic")
    ELSE Ok(<<LogTransfer(tx.args.to, tx.args.amount)>>)

(***************************************************************************)
(* execute_tx: validation of one transaction against the indexed state     *)
(* and the receipts that precede it.                                       *)
(***************************************************************************)
ExecuteOwner(tx) ==
    IF tx.base.fee # 0 THEN Err(TxErr("InvalidFeeAmount"))
    ELSE IF get_owner.wallet # ScriptHash(tx.script)
         THEN Err(TxErr("ScriptHashMismatch"))
    ELSE LET e == ScriptEval(tx, tx.script)
         IN  IF IsErr(e) THEN Err(ScriptEvalErr(e.err)) ELSE Ok(<<>>)

\* ExecuteMint without the check of the amount's sign
ExecuteMint_any_amount(tx, additional_receipts) ==
    IF tx.base.fee # 0 THEN Err(TxErr("InvalidFeeAmount"))
    ELSE IF get_owner.wallet # ScriptHash(tx.script)
         THEN Err(TxErr("ScriptHashMismatch"))
    ELSE LET e == ScriptEval(tx, tx.script)
             bal == get_balance(tx.to, additional_receipts)
         IN  IF IsErr(e) THEN Err(ScriptEvalErr(e.err))
             ELSE IF IsPanic(bal) THEN Panicked
             ELSE IF ~IsSome(bal) THEN Err(TxErr("Arithmetic"))
             ELSE IF ~IsSome(checked_add(Unwrap(bal), tx.amount))
                  THEN Err(TxErr("Arithmetic"))
             ELSE IF ~IsSome(checked_add(token_supply, tx.amount))
                  THEN Err(TxErr("Arithmetic"))
             ELSE Ok(<<>>)

ExecuteMint(tx, additional_receipts) ==
    IF tx.base.fee # 0 THEN Err(TxErr("InvalidFeeAmount"))
    ELSE IF tx.amount < 0 THEN Err(TxErr("InvalidAmount"))
    ELSE IF get_owner.wallet # ScriptHash(tx.script)
         THEN Err(TxErr("ScriptHashMismatch"))
    ELSE LET e == ScriptEval(tx, tx.script)
             bal == get_balance(tx.to, additional_receipts)
         IN  IF IsErr(e) THEN Err(ScriptEvalErr(e.err))
             ELSE IF IsPanic(bal) THEN Panicked
             ELSE IF ~IsSome(bal) THEN Err(TxErr("Arithmetic"))
             ELSE IF ~IsSome(checked_add(Unwrap(bal), tx.amount))
                  THEN Err(TxErr("Arithmetic"))
             ELSE IF ~IsSome(checked_add(token_supply, tx.amount))
                  THEN Err(TxErr("Arithmetic"))
             ELSE Ok(<<>>)

PermissionsInvalid(perms) ==
    IF perms.threshold = IMMUTABLE_ACCOUNT_THRESHOLD /\ perms.keys # 0 THEN TRUE
    ELSE perms.keys > MAX_PERM_KEYS \/ perms.threshold > perms.keys

\* Permissions::verify of the creator over the txid
PermissionsVerify(perms, tx) == tx.base.sig_ok

ExecuteCreateAccount(tx, additional_receipts) ==
    LET account == tx.account
        creator_account == indexer_get_account(tx.creator)
    IN  IF PermissionsInvalid(account.permissions)
        THEN Err(TxErr("InvalidAccountPermissions"))
        ELSE IF \E i \in DOMAIN additional_receipts :
                    /\ additional_receipts[i].tx.type = "CreateAccount"
                    /\ additional_receipts[i].tx.account.id = account.id
             THEN Err(TxErr("AccountAlreadyExists"))
        ELSE IF IsSome(indexer_get_account(account.id))
             THEN Err(TxErr("AccountAlreadyExists"))
        ELSE IF ~IsSome(creator_account) THEN Err(TxErr("AccountNotFound"))
        ELSE IF ~PermissionsVerify(Unwrap(creator_account).permissions, tx)
             THEN Err(ScriptEvalErr("ScriptRetFalse"))
        ELSE Panicked

\* ExecuteTransfer with the script hash compared before the fee
ExecuteTransfer_hash_first(tx, additional_receipts) ==
    IF tx.memo > MAX_MEMO_BYTE_SIZE THEN Err(TxErr("TxTooLarge"))
    ELSE IF tx.amount < 0 THEN Err(TxErr("InvalidAmount"))
    ELSE IF tx.from # ScriptHash(tx.script) THEN Err(TxErr("ScriptHashMismatch"))
    ELSE LET info == get_address_info(tx.from, additional_receipts)
         IN  IF IsPanic(info) THEN Panicked
             ELSE IF ~IsSome(info) THEN Err(TxErr("Arithmetic"))
             ELSE IF ~IsSome(total_fee(Unwrap(info))) THEN Err(TxErr("Arithmetic"))
             ELSE IF tx.base.fee < Unwrap(total_fee(Unwrap(info)))
                  THEN Err(TxErr("InvalidFeeAmount"))
             ELSE LET b1 == checked_sub(Unwrap(info).balance, tx.base.fee)
                      bal == IF IsSome(b1) THEN checked_sub(Unwrap(b1), tx.amount)
                             ELSE None
                      e == ScriptEval(tx, tx.script)
                  IN  IF ~IsSome(bal) THEN Err(TxErr("Arithmetic"))
                      ELSE IF Unwrap(bal) < 0 THEN Err(TxErr("InvalidAmount"))
                      ELSE IF IsErr(e) THEN Err(ScriptEvalErr(e.err))
                      ELSE Ok(e.val)

ExecuteTransfer(tx, additional_receipts) ==
    IF tx.memo > MAX_MEMO_BYTE_SIZE THEN Err(TxErr("TxTooLarge"))
    ELSE IF tx.amount < 0 THEN Err(TxErr("InvalidAmount"))
    ELSE LET info == get_address_info(tx.from, additional_receipts)
         IN  IF IsPanic(info) THEN Panicked
             ELSE IF ~IsSome(info) THEN Err(TxErr("Arithmetic"))
             ELSE IF ~IsSome(total_fee(Unwrap(info))) THEN Err(TxErr("Arithmetic"))
             ELSE IF tx.base.fee < Unwrap(total_fee(Unwrap(info)))
                  THEN Err(TxErr("InvalidFeeAmount"))
             ELSE IF tx.from # ScriptHash(tx.script)
                  THEN Err(TxErr("ScriptHashMismatch"))
             ELSE LET b1 == checked_sub(Unwrap(info).balance, tx.base.fee)
                      bal == IF IsSome(b1) THEN checked_sub(Unwrap(b1), tx.amount)
                             ELSE None
                      e == ScriptEval(tx, tx.script)
                  IN  IF ~IsSome(bal) THEN Err(TxErr("Arithmetic"))
                      ELSE IF Unwrap(bal) < 0 THEN Err(TxErr("InvalidAmount"))
                      ELSE IF IsErr(e) THEN Err(ScriptEvalErr(e.err))
                      ELSE Ok(e.val)

execute_tx(tx, additional_receipts) ==
    IF tx.base.nsigs > MAX_TX_SIGNATURES THEN Err(TxErr("TooManySignatures"))
    ELSE IF HasScript(tx) /\ tx.script.len > MAX_SCRIPT_BYTE_SIZE
         THEN Err(TxErr("TxTooLarge"))
    ELSE CASE tx.type = "Owner" -> ExecuteOwner(tx)
           [] tx.type = "Mint" -> ExecuteMint(tx, additional_receipts)
           [] tx.type = "CreateAccount" -> ExecuteCreateAccount(tx, additional_receipts)
           [] tx.type = "Transfer" -> ExecuteTransfer(tx, additional_receipts)

(***************************************************************************)
(* verify_block.                                                           *)
(***************************************************************************)
\* the loop over the receipts with no receipt passed as additional_receipts
RECURSIVE VerifyReceipts_no_prefix(_, _)
VerifyReceipts_no_prefix(receipts, i) ==
    IF i > Len(receipts) THEN Ok(<<>>)
    ELSE LET r == execute_tx(receipts[i].tx, <<>>)
         IN  IF r.tag = "Panic" THEN Panicked
             ELSE IF IsErr(r) THEN Err(BlockErrTx(r.err))
             ELSE VerifyReceipts_no_prefix(receipts, i + 1)

\* the loop over the receipts, from receipt i on
RECURSIVE VerifyReceipts(_, _)
VerifyReceipts(receipts, i) ==
    IF i > Len(receipts) THEN Ok(<<>>)
    ELSE LET r == execute_tx(receipts[i].tx, SubSeq(receipts, 1, i - 1))
         IN  IF r.tag = "Panic" THEN Panicked
             ELSE IF IsErr(r) THEN Err(BlockErrTx(r.err))
             ELSE VerifyReceipts(receipts, i + 1)

\* verify_block with the signer checked before the previous hash
verify_block_signer_first(block, prev_block) ==
    IF prev_block.height + 1 # block.height THEN Err(BlockErr("InvalidBlockHeight"))
    ELSE IF ~verify_receipt_root(block) THEN Err(BlockErr("InvalidReceiptRoot"))
    ELSE IF ~IsSome(block.signer) THEN Err(BlockErr("InvalidSignature"))
    ELSE IF Unwrap(block.signer).pub_key # get_owner.minter
         THEN Err(BlockErr("InvalidSignature"))
    ELSE IF ~SigVerify(Unwrap(block.signer), calc_header_hash(block))
         THEN Err(BlockErr("InvalidSignature"))
    ELSE IF ~verify_previous_hash(block, prev_block)
         THEN Err(BlockErr("InvalidPrevHash"))
    ELSE VerifyReceipts(block.receipts, 1)

\* verify_block without the check of the height
verify_block_no_height(block, prev_block) ==
    IF ~verify_receipt_root(block) THEN Err(BlockErr("InvalidReceiptRoot"))
    ELSE IF ~verify_previous_hash(block, prev_block)
         THEN Err(BlockErr("InvalidPrevHash"))
    ELSE IF ~IsSome(block.signer) THEN Err(BlockErr("InvalidSignature"))
    ELSE IF Unwrap(block.signer).pub_key # get_owner.minter
         THEN Err(BlockErr("InvalidSignature"))
    ELSE IF ~SigVerify(Unwrap(block.signer), calc_header_hash(block))
         THEN Err(BlockErr("InvalidSignature"))
    ELSE VerifyReceipts(block.receipts, 1)

verify_block(block, prev_block) ==
    IF prev_block.height + 1 # block.height THEN Err(BlockErr("InvalidBlockHeight"))
    ELSE IF ~verify_receipt_root(block) THEN Err(BlockErr("InvalidReceiptRoot"))
    ELSE IF ~verify_previous_hash(block, prev_block)
         THEN Err(BlockErr("InvalidPrevHash"))
    ELSE IF ~IsSome(block.signer) THEN Err(BlockErr("InvalidSignature"))
    ELSE IF Unwrap(block.signer).pub_key # get_owner.minter
         THEN Err(BlockErr("InvalidSignature"))
    ELSE IF ~SigVerify(Unwrap(block.signer), calc_header_hash(block))
         THEN Err(BlockErr("InvalidSignature"))
    ELSE VerifyReceipts(block.receipts, 1)

(***************************************************************************)
(* WriteBatch and indexing.  A batch stages the indexer values it touches; *)
(* its arithmetic is checked and unwrapped, so an overflow panics.         *)
(***************************************************************************)
WriteBatch_new ==
    [owner |-> None, token_supply |-> token_supply, balances |-> balances,
     accounts |-> accounts, chain_height |-> chain_height, panicked |-> FALSE]

batch_set_owner(batch, tx) == [batch EXCEPT !.owner = Some(tx)]

batch_add_token_supply(batch, amount) ==
    LET s == checked_add(batch.token_supply, amount)
    IN  IF IsSome(s) THEN [batch EXCEPT !.token_supply = Unwrap(s)]
        ELSE [batch EXCEPT !.panicked = TRUE]

batch_add_bal(batch, addr, amount) ==
    LET b == checked_add(batch.balances[addr], amount)
    IN  IF IsSome(b) THEN [batch EXCEPT !.balances[addr] = Unwrap(b)]
        ELSE [batch EXCEPT !.panicked = TRUE]

batch_sub_bal(batch, addr, amount) ==
    LET b == checked_sub(batch.balances[addr], amount)
    IN  IF IsSome(b) THEN [batch EXCEPT !.balances[addr] = Unwrap(b)]
        ELSE [batch EXCEPT !.panicked = TRUE]

batch_insert_or_update_account(batch, account) ==
    [batch EXCEPT !.accounts = [id \in DOMAIN batch.accounts \cup {account.id} |->
                                   IF id = account.id THEN account
                                   ELSE batch.accounts[id]]]

batch_set_chain_height(batch, height) == [batch EXCEPT !.chain_height = height]

RECURSIVE IndexLog(_, _, _)
IndexLog(batch, log, i) ==
    IF i > Len(log) \/ batch.panicked THEN batch
    ELSE IndexLog(batch_add_bal(batch, log[i].to, log[i].amount), log, i + 1)

\* index_receipt that leaves the owner of an Owner receipt unset
index_receipt_keep_owner(batch, receipt) ==
    LET tx == receipt.tx
    IN  CASE tx.type = "Owner" -> batch
          [] tx.type = "Mint" ->
                LET b == batch_add_token_supply(batch, tx.amount)
                IN  IF b.panicked THEN b ELSE batch_add_bal(b, tx.to, tx.amount)
          [] tx.type = "CreateAccount" ->
                batch_insert_or_update_account(batch, tx.account)
          [] tx.type = "Transfer" ->
                LET sum == checked_add(tx.base.fee, tx.amount)
                    b == IF IsSome(sum) THEN batch_sub_bal(batch, tx.from, Unwrap(sum))
                         ELSE [batch EXCEPT !.panicked = TRUE]
                IN  IndexLog(b, receipt.log, 1)

index_receipt(batch, receipt) ==
    LET tx == receipt.tx
    IN  CASE tx.type = "Owner" -> batch_set_owner(batch, tx)
          [] tx.type = "Mint" ->
                LET b == batch_add_token_supply(batch, tx.amount)
                IN  IF b.panicked THEN b ELSE batch_add_bal(b, tx.to, tx.amount)
          [] tx.type = "CreateAccount" ->
                batch_insert_or_update_account(batch, tx.account)
          [] tx.type = "Transfer" ->
                LET sum == checked_add(tx.base.fee, tx.amount)
                    b == IF IsSome(sum) THEN batch_sub_bal(batch, tx.from, Unwrap(sum))
                         ELSE [batch EXCEPT !.panicked = TRUE]
                IN  IndexLog(b, receipt.log, 1)

RECURSIVE IndexReceipts(_, _, _)
IndexReceipts(batch, receipts, i) ==
    IF i > Len(receipts) \/ batch.panicked THEN batch
    ELSE IndexReceipts(index_receipt(batch, receipts[i]), receipts, i + 1)

index_block(batch, block) ==
    LET b == IndexReceipts(batch, block.receipts, 1)
        owner_tx == IF IsSome(b.owner) THEN Unwrap(b.owner) ELSE get_owner
    IN  IF b.panicked THEN b ELSE batch_add_bal(b, owner_tx.wallet, block.rewards)

\* BlockStore::insert: append the block to the log and stage the new chain head
store_insert(log, batch, block) ==
    [log |-> Append(log, block),
     batch |-> batch_set_chain_height(batch, block.height)]

(***************************************************************************)
(* Inputs.  HALF is an amount two of which overflow an Asset.              *)
(***************************************************************************)
HALF == (MAX_AMOUNT + 1) \div 2
\* the least fee of an address's first and second transfer in the fee window
FEE1 == GRAEL_FEE_MIN + 2 * GRAEL_FEE_MIN
FEE2 == GRAEL_FEE_MIN + 4 * GRAEL_FEE_MIN

Signed == Tx(0, 2, TRUE)

\* transactions that some reachable state accepts
GoodTxs ==
    {MintTx(Signed, "A1", HALF, GenesisScript),
     MintTx(Signed, "A2", HALF, GenesisScript),
     MintTx(Signed, "A1", 3, GenesisScript),
     MintTx(Signed, "A2", 3, UserScript),
     OwnerTx(Signed, "K1", "A1", GenesisScript),
     OwnerTx(Signed, "K0", "A2", GenesisScript),
     TransferTx(Tx(FEE1, 1, TRUE), "A1", UserScript, 0, 0, "A2", 0),
     TransferTx(Tx(FEE2, 1, TRUE), "A1", UserScript, 0, 0, "A2", 0),
     TransferTx(Tx(FEE2, 1, TRUE), "A1", UserScript, 1, 0, "A2", 1),
     TransferTx(Tx(FEE1, 2, TRUE), "W0", GenesisScript, 1, 0, "A2", 1)}

\* transactions with one defect
DefectTxs ==
    {MintTx(Tx(1, 2, TRUE), "A1", 3, GenesisScript),
     MintTx(Signed, "A1", 0 - 1, GenesisScript),
     MintTx(Tx(0, 2, FALSE), "A1", 3, GenesisScript),
     MintTx(Signed, "A1", 3, FalseScript),
     OwnerTx(Tx(1, 2, TRUE), "K1", "A1", GenesisScript),
     OwnerTx(Tx(0, 2, FALSE), "K1", "A1", GenesisScript),
     OwnerTx(Signed, "K1", "A1", FalseScript),
     TransferTx(Tx(FEE1 - 1, 1, TRUE), "A1", UserScript, 0, 0, "A2", 0),
     TransferTx(Tx(FEE1, 1, FALSE), "A1", UserScript, 0, 0, "A2", 0),
     CreateAccountTx(Signed, 0, 1, 1, 1)}

\* the effect log the script of a transaction produces
ExecLog(tx) ==
    IF tx.type = "Transfer" /\ IsOk(ScriptEval(tx, tx.script))
    THEN ScriptEval(tx, tx.script).val ELSE <<>>

HonestReceipt(tx) == Receipt(tx, ExecLog(tx))

\* a receipt whose effect log is not the one its transaction produces
ForgedReceipt ==
    Receipt(TransferTx(Tx(FEE1, 1, TRUE), "A1", UserScript, 0, 0, "A2", 0),
            <<LogTransfer("A2", 4)>>)

GoodReceipts == {HonestReceipt(tx) : tx \in GoodTxs} \cup {ForgedReceipt}

RECURSIVE SeqsUpTo(_, _)
SeqsUpTo(S, n) ==
    IF n = 0 THEN {<<>>}
    ELSE LET shorter == SeqsUpTo(S, n - 1)
         IN  shorter \cup {Append(q, x) : q \in shorter, x \in S}

\* Block::new_child and Block::sign: a child of head signed by key
Child(head, receipts, rewards, key) ==
    LET unsigned == Block(head.height + 1, calc_header_hash(head),
                          calc_receipt_root(receipts), rewards, receipts, None)
    IN  [unsigned EXCEPT !.signer = Some(SigPair(key, calc_header_hash(unsigned)))]

\* blocks with a defect in the header or the signer, and no receipts
Signers(unsigned) ==
    {None, Some(ForgedSigPair(get_owner.minter))}
    \cup {Some(SigPair(k, calc_header_hash(unsigned))) : k \in Keys}

DefectBlocks(head) ==
    LET unsigned == {Block(h, prev, root, 0, <<>>, None) :
                        h \in {head.height, head.height + 1},
                        prev \in {calc_header_hash(head), ZeroDigest},
                        root \in {calc_receipt_root(<<>>), ZeroDigest}}
    IN  UNION {{[b EXCEPT !.signer = sg] : sg \in Signers(b)} : b \in unsigned}

BlockInputs(head) ==
    {Child(head, receipts, 0, get_owner.minter) :
        receipts \in SeqsUpTo(GoodReceipts, MaxReceipts)}
    \cup {Child(head, <<HonestReceipt(tx)>>, 0, get_owner.minter) : tx \in DefectTxs}
    \cup {Child(head, receipts, 1, get_owner.minter) :
            receipts \in SeqsUpTo(GoodReceipts, 1)}
    \cup DefectBlocks(head)

(***************************************************************************)
(* Operations.                                                             *)
(***************************************************************************)
NoResult == [tag |-> "None"]
NoTxResult == [tx |-> None, res |-> NoResult]
NoLocal == [block |-> None, head |-> None, batch |-> None]

Init ==
    /\ store = <<>>
    /\ owner = None
    /\ chain_height = 0
    /\ token_supply = 0
    /\ balances = [a \in Addrs |-> 0]
    /\ accounts = <<>>
    /\ result = NoResult
    /\ tx_result = NoTxResult
    /\ lock = NoThread
    /\ pc = [t \in Threads |-> "idle"]
    /\ local = [t \in Threads |-> NoLocal]
    /\ PeersInit
    /\ EngineInit
    /\ ServerInit

\* WriteBatch::commit: the staged values become the indexer's
BatchCommit(batch) ==
    /\ owner' = IF IsSome(batch.owner) THEN batch.owner ELSE owner
    /\ token_supply' = batch.token_supply
    /\ balances' = batch.balances
    /\ accounts' = batch.accounts
    /\ chain_height' = batch.chain_height

create_genesis_block(minter_key) ==
    LET owner_tx == OwnerTx(Tx(0, 0, FALSE), minter_key,
                            ScriptHash(GenesisScript), FalseScript)
        receipts == <<Receipt(owner_tx, <<>>)>>
        unsigned == Block(0, ZeroDigest, calc_receipt_root(receipts), 0, receipts, None)
        block == [unsigned EXCEPT
                    !.signer = Some(SigPair(minter_key, calc_header_hash(unsigned)))]
        batch == batch_set_owner(batch_set_chain_height(WriteBatch_new, 0), owner_tx)
    IN  /\ store = <<>>
        /\ store' = <<block>>
        /\ BatchCommit(batch)
        /\ tx_result' = NoTxResult
        /\ UNCHANGED <<result, threads, raft, script_result>>

\* insert_block that indexes and stores the block before it looks at the
\* result of verify_block
insert_block_store_first(block) ==
    LET verified == verify_block(block, get_chain_head)
        batch == index_block(WriteBatch_new, block)
        inserted == store_insert(store, batch, block)
    IN  /\ store # <<>>
        /\ chain_height < MaxHeight
        /\ tx_result' = NoTxResult
        /\ UNCHANGED <<threads, rest>>
        /\ IF batch.panicked
           THEN result' = PanickedIn("index_block") /\ UNCHANGED ledger
           ELSE /\ store' = inserted.log
                /\ BatchCommit(inserted.batch)
                /\ result' = IF IsOk(verified) THEN Ok(<<>>) ELSE verified

insert_block(block) ==
    LET verified == verify_block(block, get_chain_head)
        batch == index_block(WriteBatch_new, block)
        inserted == store_insert(store, batch, block)
    IN  /\ store # <<>>
        /\ tx_result' = NoTxResult
        /\ UNCHANGED <<threads, raft, script_result>>
        /\ IF ~IsOk(verified)
           THEN result' = verified /\ UNCHANGED ledger
           ELSE IF batch.panicked
           THEN result' = PanickedIn("index_block") /\ UNCHANGED ledger
           ELSE /\ store' = inserted.log
                /\ BatchCommit(inserted.batch)
                /\ result' = Ok(<<>>)

CreateGenesis ==
    /\ \E k \in {"K0"} : create_genesis_block(k)
    /\ UNCHANGED server

InsertBlock ==
    /\ chain_height < MaxHeight
    /\ \E block \in BlockInputs(get_chain_head) : insert_block(block)
    /\ UNCHANGED server

Next == CreateGenesis \/ (store # <<>> /\ InsertBlock)

Spec == Init /\ [][Next]_vars

(***************************************************************************)
(* insert_block with the block it was given on record.  rpc_result holds   *)
(* the call: the block, the head and the owner it was verified against,    *)
(* what verify_block returned and, for every receipt, what execute_tx      *)
(* returns for its transaction after the receipts before it.  The blocks   *)
(* are those of BlockInputs and, signed by the minter as well, blocks      *)
(* whose rewards or whose receipt log carry a negative amount.             *)
(***************************************************************************)
MaxBlockHeight == 2

NegativeLogReceipt ==
    Receipt(TransferTx(Tx(FEE1, 1, TRUE), "A1", UserScript, 0, 0, "A2", 0),
            <<LogTransfer("A2", 0 - 1)>>)

NegativeBlocks(head) ==
    {Child(head, <<>>, 0 - 1, get_owner.minter),
     Child(head, <<NegativeLogReceipt>>, 0, get_owner.minter),
     Child(head, <<HonestReceipt(MintTx(Signed, "A1", HALF, GenesisScript)),
                   NegativeLogReceipt>>, 0, get_owner.minter)}

InsertRecorded(block) ==
    /\ insert_block(block)
    /\ rpc_result' =
         [kind |-> "insert_block", block |-> block, prev_block |-> get_chain_head,
          owner |-> get_owner,
          verified |-> verify_block(block, get_chain_head),
          executed |-> [i \in DOMAIN block.receipts |->
                          execute_tx(block.receipts[i].tx,
                                     SubSeq(block.receipts, 1, i - 1))]]
    /\ UNCHANGED <<txs, minter_result, accepted, fee_log, conn_filter>>

InsertAnyBlock ==
    /\ store # <<>>
    /\ chain_height < MaxBlockHeight
    /\ \E block \in BlockInputs(get_chain_head) \cup NegativeBlocks(get_chain_head) :
         InsertRecorded(block)

BlockNext == CreateGenesis \/ InsertAnyBlock

SpecBlock == Init /\ [][BlockNext]_vars

(***************************************************************************)
(* Transaction validation on its own (a broadcast transaction is validated *)
(* with execute_tx before it is queued), over a wider set of transactions  *)
(* and a narrower set of blocks.                                           *)
(***************************************************************************)
WideTransfers ==
    {TransferTx(Tx(fee, nsigs, ok), from, script, amount, memo, "A2", amount) :
        fee \in {FEE1 - 1, FEE2},
        nsigs \in {1, MAX_TX_SIGNATURES + 1},
        ok \in BOOLEAN,
        from \in {"A1", "A3"},
        script \in {UserScript, BigScript},
        amount \in {0 - 1, 0, HALF},
        memo \in {0, MAX_MEMO_BYTE_SIZE + 1}}

WideCreateAccounts ==
    {CreateAccountTx(Tx(0, 1, TRUE), 0, 1, threshold, nkeys) :
        threshold \in {0, 1, MAX_PERM_KEYS, MAX_PERM_KEYS + 1,
                       IMMUTABLE_ACCOUNT_THRESHOLD},
        nkeys \in {0, 1, MAX_PERM_KEYS, MAX_PERM_KEYS + 1}}

WideTxs == WideTransfers \cup WideCreateAccounts \cup GoodTxs \cup DefectTxs

TxSpecReceipts ==
    {HonestReceipt(tx) : tx \in
        {MintTx(Signed, "A1", HALF, GenesisScript),
         TransferTx(Tx(FEE1, 1, TRUE), "A1", UserScript, 0, 0, "A2", 0),
         TransferTx(Tx(FEE2, 1, TRUE), "A1", UserScript, 0, 0, "A2", 0)}}

TxSpecBlockInputs(head) ==
    {Child(head, receipts, 0, get_owner.minter) :
        receipts \in SeqsUpTo(TxSpecReceipts, MaxReceipts)}

ExecuteTx(tx) ==
    /\ store # <<>>
    /\ tx_result' = [tx |-> Some(tx), res |-> execute_tx(tx, <<>>)]
    /\ UNCHANGED <<ledger, result, threads, rest>>

TxInsertBlock ==
    /\ chain_height < MaxHeight
    /\ \E block \in TxSpecBlockInputs(get_chain_head) : insert_block(block)
    /\ UNCHANGED server

TxExecute == \E tx \in WideTxs : ExecuteTx(tx)

TxNext == CreateGenesis \/ (store # <<>> /\ TxInsertBlock) \/ TxExecute

SpecTx == Init /\ [][TxNext]_vars

(***************************************************************************)
(* The fee curves over a long chain: blocks of no receipts and blocks of   *)
(* FeeBlockLen Mint receipts that mint nothing.                            *)
(***************************************************************************)
MaxFeeHeight == 15
FeeBlockLen == 4

FeeMint == HonestReceipt(MintTx(Signed, "A1", 0, GenesisScript))

FeeBlockInputs(head) ==
    {Child(head, receipts, 0, get_owner.minter) :
        receipts \in {<<>>, [i \in 1 .. FeeBlockLen |-> FeeMint]}}

\* insert_block, with the network fee of the chain it is called on noted
FeeInsertBlock ==
    /\ chain_height < MaxFeeHeight
    /\ \E block \in FeeBlockInputs(get_chain_head) : insert_block(block)
    /\ fee_log' = Append(fee_log, get_network_fee)
    /\ UNCHANGED <<txs, minter_result, accepted, conn_filter, rpc_result>>

FeeNext == CreateGenesis \/ (store # <<>> /\ FeeInsertBlock)

SpecFee == Init /\ [][FeeNext]_vars

(***************************************************************************)
(* The address fee over chains of transfers of one address, read for an    *)
(* address and a list of additional receipts.                              *)
(***************************************************************************)
MaxAddrHeight == 6

AddrTransfer(fee) ==
    HonestReceipt(TransferTx(Tx(fee, 1, TRUE), "A1", UserScript, 0, 0, "A2", 0))

AddrFeeReceipts ==
    {<<>>,
     <<HonestReceipt(MintTx(Signed, "A1", MAX_AMOUNT, GenesisScript))>>,
     <<AddrTransfer(FEE1)>>,
     <<AddrTransfer(FEE2)>>,
     <<AddrTransfer(FEE1), AddrTransfer(FEE2)>>}

\* the additional receipts get_address_fee is called with
AddrFeeAdditional ==
    {<<>>, <<AddrTransfer(FEE1)>>, <<FeeMint, AddrTransfer(FEE1), AddrTransfer(FEE2)>>}

AddrInsertBlock ==
    /\ chain_height < MaxAddrHeight
    /\ rpc_result = NoRpcResult
    /\ \E receipts \in AddrFeeReceipts :
          insert_block(Child(get_chain_head, receipts, 0, get_owner.minter))
    /\ UNCHANGED server

GetAddressFee ==
    /\ store # <<>>
    /\ rpc_result = NoRpcResult
    /\ \E addr \in {"A1", "A2"} : \E additional_receipts \in AddrFeeAdditional :
          rpc_result' =
              [kind |-> "address_fee", addr |-> addr,
               additional_receipts |-> additional_receipts,
               count |-> AddressFeeCount(addr, additional_receipts),
               fee |-> get_address_fee(addr, additional_receipts)]
    /\ UNCHANGED <<ledger, result, tx_result, threads, raft, script_result,
                   txs, minter_result, accepted, fee_log, conn_filter>>

AddrFeeNext == CreateGenesis \/ (store # <<>> /\ AddrInsertBlock) \/ GetAddressFee

SpecAddrFee == Init /\ [][AddrFeeNext]_vars

(***************************************************************************)
(* get_filtered_block.  A BlockFilter is a set of script hashes.           *)
(***************************************************************************)
\* the closure given to `any`, a transfer matching by its sender only
FilterMatches_from_only(receipt, filter) ==
    LET tx == receipt.tx
    IN  CASE tx.type = "Owner" ->
                IF tx.wallet \in filter \/ ScriptHash(tx.script) \in filter
                THEN "true" ELSE "false"
          [] tx.type = "Mint" ->
                IF ScriptHash(tx.script) \in filter \/ tx.to \in filter
                THEN "true" ELSE "false"
          [] tx.type = "CreateAccount" -> "todo"
          [] tx.type = "Transfer" ->
                IF tx.from \in filter THEN "true" ELSE "false"

\* the closure given to `any`: "todo" is the panic of todo!()
FilterMatches(receipt, filter) ==
    LET tx == receipt.tx
    IN  CASE tx.type = "Owner" ->
                IF tx.wallet \in filter \/ ScriptHash(tx.script) \in filter
                THEN "true" ELSE "false"
          [] tx.type = "Mint" ->
                IF ScriptHash(tx.script) \in filter \/ tx.to \in filter
                THEN "true" ELSE "false"
          [] tx.type = "CreateAccount" -> "todo"
          [] tx.type = "Transfer" ->
                IF tx.from \in filter THEN "true"
                ELSE IF \E i \in DOMAIN receipt.log : receipt.log[i].to \in filter
                     THEN "true" ELSE "false"

\* Iterator::any over the receipts, from receipt i on
RECURSIVE AnyMatches(_, _, _)
AnyMatches(receipts, filter, i) ==
    IF i > Len(receipts) THEN "false"
    ELSE LET m == FilterMatches(receipts[i], filter)
         IN  IF m = "false" THEN AnyMatches(receipts, filter, i + 1) ELSE m

FilteredBlock_Block(block) == [tag |-> "Block", block |-> block]
FilteredBlock_Header(header, signer) ==
    [tag |-> "Header", header |-> header, signer |-> signer]

\* None, Some(FilteredBlock), or the panic of todo!() or of signer().unwrap()
get_filtered_block(height, filter) ==
    LET found == store_get(height)
        block == Unwrap(found)
        has_match == IF filter = {} THEN "false"
                     ELSE AnyMatches(block.receipts, filter, 1)
    IN  IF ~IsSome(found) THEN None
        ELSE IF has_match = "todo" THEN TodoPanic
        ELSE IF has_match = "true" THEN Some(FilteredBlock_Block(block))
        ELSE IF ~IsSome(block.signer) THEN TodoPanic
        ELSE Some(FilteredBlock_Header(Header(block), Unwrap(block.signer)))

MaxFilterHeight == 2

\* a transfer of A1 whose script pays A2
PayA2 ==
    HonestReceipt(TransferTx(Tx(FEE1, 1, TRUE), "A1", UserScript, 1, 0, "A2", 1))

FilterBlockInputs(head) ==
    {Child(head, <<>>, 1, get_owner.minter)}
    \cup {Child(head, receipts, 0, get_owner.minter) :
            receipts \in
                {<<HonestReceipt(MintTx(Signed, "A1", HALF, GenesisScript))>>,
                 <<HonestReceipt(OwnerTx(Signed, "K0", "A2", GenesisScript))>>,
                 <<HonestReceipt(MintTx(Signed, "A3", 3, GenesisScript)), PayA2>>,
                 <<PayA2>>,
                 <<HonestReceipt(CreateAccountTx(Signed, 0, 1, 1, 1))>>}}

FilterInsertBlock ==
    /\ chain_height < MaxFilterHeight
    /\ rpc_result = NoRpcResult
    /\ \E block \in FilterBlockInputs(get_chain_head) : insert_block(block)
    /\ UNCHANGED server

NotRpcResult ==
    <<ledger, result, tx_result, threads, raft, script_result,
      txs, minter_result, accepted, fee_log, conn_filter>>

GetFilteredBlock ==
    /\ store # <<>>
    /\ rpc_result = NoRpcResult
    /\ \E height \in 0 .. MaxFilterHeight + 1 : \E filter \in SUBSET Addrs :
          rpc_result' = [kind |-> "filtered", height |-> height, filter |-> filter,
                         res |-> get_filtered_block(height, filter)]
    /\ UNCHANGED NotRpcResult

FilterNext ==
    CreateGenesis \/ (store # <<>> /\ FilterInsertBlock) \/ GetFilteredBlock

SpecFilter == Init /\ [][FilterNext]_vars

(***************************************************************************)
(* The minter (server/minter.rs): the queue of pending transactions and    *)
(* block production.  Blockchain::verify_tx and the RewardTx variant of    *)
(* the minter's transactions are not part of blockchain/mod.rs: verify_tx  *)
(* is execute_tx over the receipts of the queued transactions, and the     *)
(* RewardTx at the tail of a produced block is carried by the rewards of   *)
(* the block handed to insert_block.                                       *)
(***************************************************************************)
MaxMinterHeight == 3
MaxQueue == 2

minter_key == "K0"
wallet_addr == ScriptHash(GenesisScript)

RewardTx(to, rewards) ==
    [type |-> "Reward", base |-> Tx(0, 0, TRUE), to |-> to, rewards |-> rewards]

TxReceipts(queue) == [i \in DOMAIN queue |-> HonestReceipt(queue[i])]

verify_tx_chain_only(tx, additional_txs) == execute_tx(tx, <<>>)

verify_tx(tx, additional_txs) == execute_tx(tx, TxReceipts(additional_txs))

MinterTxs ==
    {MintTx(Signed, "A1", HALF, GenesisScript),
     MintTx(Signed, "A2", HALF, GenesisScript),
     MintTx(Signed, "A1", 3, GenesisScript),
     MintTx(Tx(1, 2, TRUE), "A1", 3, GenesisScript),
     OwnerTx(Signed, "K0", "A2", GenesisScript),
     TransferTx(Tx(FEE1, 1, TRUE), "A1", UserScript, 0, 0, "A2", 0),
     TransferTx(Tx(FEE2, 1, TRUE), "A1", UserScript, 0, 0, "A2", 0),
     TransferTx(Tx(FEE1, 1, TRUE), "A1", UserScript, 1, 0, "A2", 1)}

MinterAlive == minter_result.res.tag # "Panic"

NotMinter == <<result, tx_result, threads, raft, script_result,
               fee_log, conn_filter, rpc_result>>

\* Handler<PushTx>
PushTx(tx) ==
    LET res == verify_tx(tx, txs)
    IN  /\ store # <<>>
        /\ MinterAlive
        /\ Len(txs) < MaxQueue
        /\ IF IsOk(res)
           THEN /\ txs' = Append(txs, tx)
                /\ accepted' = Append(accepted, tx)
                /\ minter_result' = [op |-> "PushTx", tx |-> tx, queue |-> txs,
                                     res |-> Ok(<<>>)]
           ELSE /\ UNCHANGED <<txs, accepted>>
                /\ minter_result' =
                      [op |-> "PushTx", tx |-> tx, queue |-> txs,
                       res |-> IF IsErr(res) THEN Err([kind |-> "TxValidateError",
                                                      cause |-> res.err])
                               ELSE res]
        /\ UNCHANGED <<ledger, NotMinter>>

\* Minter::produce, called from caller: insert_block(..).unwrap() panics on Err
produce(caller) ==
    LET transactions == Append(txs, RewardTx(wallet_addr, 0))
        head == get_chain_head
        block == Child(head, TxReceipts(txs), 0, minter_key)
    IN  /\ store # <<>>
        /\ MinterAlive
        /\ chain_height < MaxMinterHeight
        /\ insert_block(block)
        /\ txs' = <<>>
        /\ minter_result' = [op |-> caller, transactions |-> transactions,
                             head |-> head, key |-> minter_key,
                             res |-> IF IsOk(result') THEN Ok(<<>>)
                                     ELSE PanickedIn("produce")]
        /\ UNCHANGED <<accepted, fee_log, conn_filter, rpc_result>>

\* the run_interval closure of Handler<StartProductionLoop>
ProductionTick == produce("tick")

\* Handler<ForceProduceBlock>
ForceProduceBlock == produce("ForceProduceBlock")

MinterPushTx == \E tx \in MinterTxs : PushTx(tx)

MinterNext == CreateGenesis \/ MinterPushTx \/ ProductionTick \/ ForceProduceBlock

SpecMinter == Init /\ [][MinterNext]_vars

(***************************************************************************)
(* The client RPC front-end.  The server's message handler is not in src   *)
(* (only its tests, server/tests/server.rs): it is modelled from the       *)
(* specification's description of the protocol and from what the tests     *)
(* assert.  A serialized message is the sequence of its fields: the id,    *)
(* the tag of the body, and the fields of the body.                        *)
(***************************************************************************)
U32_MAX == 255
MaxRpcHeight == 1

Msg(id, body) == [id |-> id, body |-> body]
Body_Ping(n) == [tag |-> "Ping", n |-> n]
Body_Pong(n) == [tag |-> "Pong", n |-> n]
Body_Request(req) == [tag |-> "Request", req |-> req]
Body_Response(res) == [tag |-> "Response", res |-> res]
Body_Error(kind) == [tag |-> "Error", kind |-> kind]

\* Msg::serialize of a Ping or a Request; a BlockFilter is written as its
\* length and its script hashes
serialize_body(body) ==
    IF body.tag = "Ping" THEN <<"Ping", body.n>>
    ELSE LET req == body.req
         IN  <<"Request", req.tag>> \o
             (CASE req.tag \in {"GetProperties", "ClearBlockFilter"} -> <<>>
                [] req.tag \in {"GetBlock", "GetFullBlock"} -> <<req.height>>
                [] req.tag = "GetBlockRange" -> <<req.lo, req.hi>>
                [] req.tag = "SetBlockFilter" -> <<Len(req.filter)>> \o req.filter)

serialize(msg) == <<msg.id>> \o serialize_body(msg.body)

DecodeOk(msg, remaining) == [ok |-> TRUE, msg |-> msg, remaining |-> remaining]
DecodeErr == [ok |-> FALSE]

From(buf, i) == SubSeq(buf, i, Len(buf))

\* the fields of a request after its tag, read from position 4 of buf
deserialize_request(buf) ==
    LET id == buf[1]
        tag == buf[3]
        n == Len(buf)
    IN  CASE tag \in {"GetProperties", "ClearBlockFilter"} ->
               DecodeOk(Msg(id, Body_Request([tag |-> tag])), From(buf, 4))
          [] tag \in {"GetBlock", "GetFullBlock"} ->
               IF n < 4 THEN DecodeErr
               ELSE DecodeOk(Msg(id, Body_Request([tag |-> tag, height |-> buf[4]])),
                             From(buf, 5))
          [] tag = "GetBlockRange" ->
               IF n < 5 THEN DecodeErr
               ELSE DecodeOk(Msg(id, Body_Request([tag |-> tag, lo |-> buf[4],
                                                   hi |-> buf[5]])),
                             From(buf, 6))
          [] tag = "SetBlockFilter" ->
               IF n < 4 \/ n < 4 + buf[4] THEN DecodeErr
               ELSE DecodeOk(Msg(id, Body_Request([tag |-> tag,
                                    filter |-> SubSeq(buf, 5, 4 + buf[4])])),
                             From(buf, 5 + buf[4]))
          [] OTHER -> DecodeErr

\* Msg::deserialize: a short read or an unknown tag is an Io error; the
\* bytes after the message are left in the cursor
deserialize(buf) ==
    IF Len(buf) < 2 THEN DecodeErr
    ELSE CASE buf[2] = "Ping" ->
                IF Len(buf) < 3 THEN DecodeErr
                ELSE DecodeOk(Msg(buf[1], Body_Ping(buf[3])), From(buf, 4))
           [] buf[2] = "Request" ->
                IF Len(buf) < 3 THEN DecodeErr ELSE deserialize_request(buf)
           [] OTHER -> DecodeErr

FilterSet(filter) == {filter[i] : i \in DOMAIN filter}

RECURSIVE BlockRange_exclusive(_, _, _, _)
BlockRange_exclusive(id, filter, lo, hi) ==
    IF lo >= hi THEN <<>>
    ELSE LET found == IF IsSome(filter)
                      THEN get_filtered_block(lo, Unwrap(filter))
                      ELSE IF IsSome(get_block(lo))
                           THEN Some(FilteredBlock_Block(Unwrap(get_block(lo))))
                           ELSE None
         IN  <<Msg(id, Body_Response([tag |-> "GetBlock", block |-> Unwrap(found)]))>>
             \o BlockRange_exclusive(id, filter, lo + 1, hi)

RECURSIVE BlockRange(_, _, _, _)
\* the GetBlock responses of GetBlockRange(lo, hi), one per height
BlockRange(id, filter, lo, hi) ==
    IF lo > hi THEN <<>>
    ELSE LET found == IF IsSome(filter)
                      THEN get_filtered_block(lo, Unwrap(filter))
                      ELSE IF IsSome(get_block(lo))
                           THEN Some(FilteredBlock_Block(Unwrap(get_block(lo))))
                           ELSE None
         IN  <<Msg(id, Body_Response([tag |-> "GetBlock", block |-> Unwrap(found)]))>>
             \o BlockRange(id, filter, lo + 1, hi)

set_filter_of_all(conn, filter) == [c \in Conns |-> filter]

\* the filter of connection conn replaced, the other connections' kept
set_filter(conn, filter) == [conn_filter EXCEPT ![conn] = filter]

\* the answer to a request of connection conn and the filters it leaves
handle_request(conn, id, req) ==
    LET filter == conn_filter[conn]
        keep(out) == [filters |-> conn_filter, out |-> out, streamed |-> FALSE]
        invalid_height == keep(<<Msg(id, Body_Error("InvalidHeight"))>>)
    IN  CASE req.tag = "GetProperties" ->
               keep(<<Msg(id, Body_Response([tag |-> "GetProperties",
                        height |-> get_chain_height, owner |-> get_owner,
                        token_supply |-> token_supply,
                        network_fee |-> get_network_fee]))>>)
          [] req.tag = "GetBlock" ->
               LET found == IF IsSome(filter)
                            THEN get_filtered_block(req.height, Unwrap(filter))
                            ELSE IF IsSome(get_block(req.height))
                                 THEN Some(FilteredBlock_Block(Unwrap(get_block(req.height))))
                                 ELSE None
               IN  IF IsSome(found)
                   THEN keep(<<Msg(id, Body_Response([tag |-> "GetBlock",
                                                      block |-> Unwrap(found)]))>>)
                   ELSE invalid_height
          [] req.tag = "GetFullBlock" ->
               IF IsSome(get_block(req.height))
               THEN keep(<<Msg(id, Body_Response([tag |-> "GetFullBlock",
                                   block |-> Unwrap(get_block(req.height))]))>>)
               ELSE invalid_height
          [] req.tag = "GetBlockRange" ->
               IF req.lo > req.hi \/ req.hi > get_chain_height THEN invalid_height
               ELSE [filters |-> conn_filter, streamed |-> TRUE,
                     out |-> Append(BlockRange(id, filter, req.lo, req.hi),
                                    Msg(id, Body_Response([tag |-> "GetBlockRange"])))]
          [] req.tag = "SetBlockFilter" ->
               [filters |-> set_filter(conn, Some(FilterSet(req.filter))),
                out |-> <<Msg(id, Body_Response([tag |-> "SetBlockFilter"]))>>,
                streamed |-> FALSE]
          [] req.tag = "ClearBlockFilter" ->
               [filters |-> set_filter(conn, None),
                out |-> <<Msg(id, Body_Response([tag |-> "ClearBlockFilter"]))>>,
                streamed |-> FALSE]

bytes_remaining_no_id(msg) == Msg(U32_MAX, Body_Error("BytesRemaining"))

\* the answer to a decoded message that leaves bytes in the cursor
bytes_remaining(msg) == Msg(msg.id, Body_Error("BytesRemaining"))

\* a binary message of connection conn: decode, then answer; out holds the
\* messages sent for it, returned as the direct reply or, when streamed,
\* pushed one after the other into the sender of the connection
handle_bin_msg(conn, buf) ==
    LET decoded == deserialize(buf)
        msg == decoded.msg
    IN  IF ~decoded.ok
        THEN [filters |-> conn_filter, out |-> <<Msg(U32_MAX, Body_Error("Io"))>>,
              streamed |-> FALSE]
        ELSE IF decoded.remaining # <<>>
        THEN [filters |-> conn_filter, out |-> <<bytes_remaining(msg)>>,
              streamed |-> FALSE]
        ELSE IF msg.body.tag = "Ping"
        THEN [filters |-> conn_filter, out |-> <<Msg(msg.id, Body_Pong(msg.body.n))>>,
              streamed |-> FALSE]
        ELSE handle_request(conn, msg.id, msg.body.req)

RpcFilters == {<<>>, <<"A1">>, <<"A2", "A3">>}
RpcHeights == 0 .. MaxRpcHeight + 1
RpcBodies ==
    {Body_Ping(9)}
    \cup {Body_Request([tag |-> t]) : t \in {"GetProperties", "ClearBlockFilter"}}
    \cup {Body_Request([tag |-> t, height |-> h]) :
            t \in {"GetBlock", "GetFullBlock"}, h \in RpcHeights}
    \cup {Body_Request([tag |-> "GetBlockRange", lo |-> lo, hi |-> hi]) :
            lo \in {0, 1}, hi \in {1, 2}}
    \cup {Body_Request([tag |-> "SetBlockFilter", filter |-> f]) : f \in RpcFilters}
RpcMsgs == {Msg(id, body) : id \in {7, U32_MAX}, body \in RpcBodies}

\* well-formed messages, messages followed by a stray byte, messages cut
\* short by their last field, and a message with an unknown body tag
RpcBufs ==
    {serialize(m) : m \in RpcMsgs}
    \cup {Append(serialize(Msg(7, body)), 0) : body \in RpcBodies}
    \cup {SubSeq(serialize(Msg(7, body)), 1, Len(serialize(Msg(7, body))) - 1) :
            body \in RpcBodies}
    \cup {<<7, "Unknown", 0>>}

RpcBlockInputs(head) ==
    {Child(head, <<>>, 1, get_owner.minter),
     Child(head, <<HonestReceipt(MintTx(Signed, "A1", HALF, GenesisScript))>>, 0,
           get_owner.minter),
     Child(head, <<HonestReceipt(MintTx(Signed, "A3", 3, GenesisScript)), PayA2>>, 0,
           get_owner.minter)}

RpcInsertBlock ==
    /\ chain_height < MaxRpcHeight
    /\ \E block \in RpcBlockInputs(get_chain_head) : insert_block(block)
    /\ UNCHANGED server

\* one binary message of a connection handled by the server
HandleBinMsg ==
    /\ store # <<>>
    /\ \E conn \in Conns : \E buf \in RpcBufs :
          LET handled == handle_bin_msg(conn, buf)
          IN  /\ conn_filter' = handled.filters
              /\ rpc_result' = [kind |-> "rpc", conn |-> conn, buf |-> buf,
                                filters |-> conn_filter, height |-> chain_height,
                                out |-> handled.out, streamed |-> handled.streamed]
    /\ UNCHANGED <<ledger, result, tx_result, threads, raft, script_result,
                   txs, minter_result, accepted, fee_log>>

RpcNext == CreateGenesis \/ (store # <<>> /\ RpcInsertBlock) \/ HandleBinMsg

SpecRpc == Init /\ [][RpcNext]_vars

(***************************************************************************)
(* insert_block called from several threads: the steps of one call.  The   *)
(* guard of store.lock() lives to the end of the statement that takes it.  *)
(***************************************************************************)
ConcReceipts == {HonestReceipt(MintTx(Signed, "A1", 3, GenesisScript))}

ConcBlockInputs(head) ==
    {Child(head, receipts, 0, get_owner.minter) : receipts \in SeqsUpTo(ConcReceipts, 1)}

\* the caller builds its block on the head it sees and calls insert_block
CallInsertBlock(t, block) ==
    /\ pc[t] = "idle"
    /\ store # <<>>
    /\ store_get_chain_height < MaxHeight
    /\ pc' = [pc EXCEPT ![t] = "get_chain_head"]
    /\ local' = [local EXCEPT ![t] = [NoLocal EXCEPT !.block = Some(block)]]
    /\ UNCHANGED <<ledger, result, tx_result, lock, rest>>

\* self.get_chain_head(): lock, read the head, unlock
GetChainHead(t) ==
    /\ pc[t] = "get_chain_head"
    /\ lock = NoThread
    /\ local' = [local EXCEPT ![t].head = Some(get_chain_head)]
    /\ pc' = [pc EXCEPT ![t] = "verify_block"]
    /\ UNCHANGED <<ledger, result, tx_result, lock, rest>>

\* self.verify_block(&block, &head, SKIP_FLAGS)?
VerifyBlock(t) ==
    LET verified == verify_block(Unwrap(local[t].block), Unwrap(local[t].head))
    IN  /\ pc[t] = "verify_block"
        /\ IF IsOk(verified)
           THEN /\ pc' = [pc EXCEPT ![t] = "index_block"]
                /\ UNCHANGED <<result, local>>
           ELSE /\ pc' = [pc EXCEPT ![t] = "idle"]
                /\ local' = [local EXCEPT ![t] = NoLocal]
                /\ result' = verified
        /\ UNCHANGED <<ledger, tx_result, lock, rest>>

\* WriteBatch::new and self.index_block(&mut batch, &block)
IndexBlock(t) ==
    LET batch == index_block(WriteBatch_new, Unwrap(local[t].block))
    IN  /\ pc[t] = "index_block"
        /\ IF batch.panicked
           THEN /\ pc' = [pc EXCEPT ![t] = "idle"]
                /\ local' = [local EXCEPT ![t] = NoLocal]
                /\ result' = PanickedIn("index_block")
           ELSE /\ pc' = [pc EXCEPT ![t] = "store_insert"]
                /\ local' = [local EXCEPT ![t].batch = Some(batch)]
                /\ UNCHANGED result
        /\ UNCHANGED <<ledger, tx_result, lock, rest>>

\* self.store.lock().insert(&mut batch, block): the insert under the lock
StoreInsert(t) ==
    LET inserted == store_insert(store, Unwrap(local[t].batch), Unwrap(local[t].block))
    IN  /\ pc[t] = "store_insert"
        /\ lock = NoThread
        /\ lock' = t
        /\ store' = inserted.log
        /\ local' = [local EXCEPT ![t].batch = Some(inserted.batch)]
        /\ pc' = [pc EXCEPT ![t] = "store_unlock"]
        /\ UNCHANGED <<owner, chain_height, token_supply, balances, accounts,
                       result, tx_result, rest>>

\* the end of that statement drops the guard
StoreUnlock(t) ==
    /\ pc[t] = "store_unlock"
    /\ lock = t
    /\ lock' = NoThread
    /\ pc' = [pc EXCEPT ![t] = "batch_commit"]
    /\ UNCHANGED <<ledger, result, tx_result, local, rest>>

\* batch.commit(); Ok(())
CommitBatch(t) ==
    /\ pc[t] = "batch_commit"
    /\ BatchCommit(Unwrap(local[t].batch))
    /\ result' = Ok(<<>>)
    /\ pc' = [pc EXCEPT ![t] = "idle"]
    /\ local' = [local EXCEPT ![t] = NoLocal]
    /\ UNCHANGED <<store, tx_result, lock, rest>>

ConcCall ==
    \E t \in Threads : \E block \in ConcBlockInputs(get_chain_head) :
        CallInsertBlock(t, block)

ConcNext ==
    \/ CreateGenesis
    \/ (store # <<>> /\ ConcCall)
    \/ \E t \in Threads : GetChainHead(t)
    \/ \E t \in Threads : VerifyBlock(t)
    \/ \E t \in Threads : IndexBlock(t)
    \/ \E t \in Threads : StoreInsert(t)
    \/ \E t \in Threads : StoreUnlock(t)
    \/ \E t \in Threads : CommitBatch(t)

SpecConc == Init /\ [][ConcNext]_vars

(***************************************************************************)
(* Quantities the properties speak of.                                     *)
(***************************************************************************)
RECURSIVE SumOver(_, _)
SumOver(f, S) ==
    IF S = {} THEN 0
    ELSE LET x == CHOOSE y \in S : TRUE IN f[x] + SumOver(f, S \ {x})

SumBalances == SumOver(balances, Addrs)

MintedIn(block) ==
    SumOver([i \in DOMAIN block.receipts |->
                IF block.receipts[i].tx.type = "Mint"
                THEN block.receipts[i].tx.amount ELSE 0],
            DOMAIN block.receipts)

MintedTotal == SumOver([i \in DOMAIN store |-> MintedIn(store[i])], DOMAIN store)

RECURSIVE Pow2(_)
Pow2(n) == IF n = 0 THEN 1 ELSE 2 * Pow2(n - 1)

LastBlock == store[Len(store)]

\* a step in which an insert_block call stored its block
Inserted == Len(store') = Len(store) + 1 /\ Len(store) > 0

(***************************************************************************)
(* C1.  Concurrent insert_block calls form one critical section each: the  *)
(* batch is committed while the block-store mutex is held, no other call   *)
(* inserts a block between a call's read of the chain head and its commit, *)
(* and so no two blocks of the same height are both inserted.              *)
(***************************************************************************)
AfterHeadRead(t) ==
    pc[t] \in {"verify_block", "index_block", "store_insert", "store_unlock",
               "batch_commit"}

C1_InsertIsCriticalSection ==
    /\ \A t \in Threads : pc[t] = "batch_commit" => lock = t
    /\ \A t \in Threads :
          AfterHeadRead(t) =>
              LastBlock \in {Unwrap(local[t].head), Unwrap(local[t].block)}
    /\ \A i, j \in DOMAIN store : i # j => store[i].height # store[j].height

\* two children of the same head are both in the block log
C1_Siblings ==
    \E i, j \in DOMAIN store :
        i # j /\ store[i].height = store[j].height /\ store[i] # store[j]

(***************************************************************************)
(* C2.  token_supply equals the sum of the amounts of the Mint receipts of *)
(* the inserted blocks, and never decreases from one insertion to the next.*)
(***************************************************************************)
C2_TokenSupplyIsMinted ==
    /\ [](token_supply = MintedTotal)
    /\ [][token_supply' >= token_supply]_vars

C2_Witness ==
    /\ chain_height = 2
    /\ token_supply = HALF + 3
    /\ MintedIn(store[2]) > 0
    /\ MintedIn(store[3]) > 0

(***************************************************************************)
(* C3.  The sum of all balances is at most token_supply.                   *)
(***************************************************************************)
C3_BalancesWithinSupply == SumBalances <= token_supply

(***************************************************************************)
(* C4.  The stored chain is well-formed and append-only: one block at      *)
(* every height 0..H, block 0 has the zero previous_hash, every later      *)
(* block has the hash of its predecessor's header, the indexer's height is *)
(* H, and a stored block is returned unchanged ever after.                 *)
(***************************************************************************)
WellFormedChain ==
    store # <<>> =>
        /\ \A i \in DOMAIN store : store[i].height = i - 1
        /\ store[1].previous_hash = ZeroDigest
        /\ \A i \in DOMAIN store :
              i > 1 => store[i].previous_hash = calc_header_hash(store[i - 1])
        /\ chain_height = Len(store) - 1
        /\ \A h \in 0 .. chain_height : get_block(h) = Some(store[h + 1])
        /\ get_block(chain_height + 1) = None

C4_ChainWellFormed ==
    /\ []WellFormedChain
    /\ [][store # <<>> =>
            \A h \in 0 .. chain_height : get_block(h)' = get_block(h)]_vars

C4_Witness ==
    /\ chain_height = 1
    /\ result = Err(BlockErr("InvalidBlockHeight"))

(***************************************************************************)
(* C5.  An insert_block call that returns Err changes neither the block    *)
(* store nor the indexer.                                                  *)
(***************************************************************************)
C5_ErrChangesNothing ==
    [][result'.tag = "Err" =>
          /\ ledger' = ledger
          /\ result'.err.block \in {"InvalidBlockHeight", "InvalidReceiptRoot",
                                     "InvalidPrevHash", "InvalidSignature", "Tx"}]_vars

C5_Witness ==
    /\ chain_height = 1
    /\ token_supply > 0
    /\ result = Err(BlockErrTx(TxErr("Arithmetic")))

(***************************************************************************)
(* C6.  verify_block validates receipt i against the indexed state plus    *)
(* receipts 0..i-1 of the block: a block of mints and transfers is         *)
(* accepted exactly when every transfer pays the address fee as raised by  *)
(* the transfers before it in the block and is covered by the balance      *)
(* including the credits and debits of the receipts before it; otherwise   *)
(* it is rejected with BlockErr::Tx.  Every inserted block satisfies the   *)
(* same conditions.                                                        *)
(***************************************************************************)
LogCredits(log, a) ==
    SumOver([k \in DOMAIN log |-> IF log[k].to = a THEN log[k].amount ELSE 0],
            DOMAIN log)

\* the change receipt r makes to the balance of a
Effect(r, a) ==
    CASE r.tx.type = "Mint" -> IF r.tx.to = a THEN r.tx.amount ELSE 0
      [] r.tx.type = "Transfer" ->
            (IF r.tx.from = a THEN 0 - (r.tx.base.fee + r.tx.amount) ELSE 0)
            + LogCredits(r.log, a)
      [] OTHER -> 0

PrefixBalance(a, rs, i) ==
    balances[a] + SumOver([j \in 1 .. (i - 1) |-> Effect(rs[j], a)], 1 .. (i - 1))

PrefixSpends(a, rs, i) ==
    Cardinality({j \in 1 .. (i - 1) : rs[j].tx.type = "Transfer" /\ rs[j].tx.from = a})

RaisedAddressFee(a, rs, i) ==
    GRAEL_FEE_MIN * Pow2(1 + PrefixSpends(a, rs, i) + AddressFeeScan(a, chain_height, 0))

ReceiptCovered(rs, i) ==
    LET tx == rs[i].tx
    IN  CASE tx.type = "Transfer" ->
               /\ tx.base.fee >= Unwrap(get_network_fee) + RaisedAddressFee(tx.from, rs, i)
               /\ PrefixBalance(tx.from, rs, i) >= tx.base.fee + tx.amount
          [] tx.type = "Mint" ->
               /\ get_owner.wallet = ScriptHash(tx.script)
               /\ PrefixBalance(tx.to, rs, i) + tx.amount <= MAX_AMOUNT
               /\ token_supply + tx.amount <= MAX_AMOUNT
          [] OTHER -> TRUE

C6Receipts ==
    {HonestReceipt(tx) : tx \in
        {MintTx(Signed, "A1", HALF, GenesisScript),
         MintTx(Signed, "A1", 3, GenesisScript),
         TransferTx(Tx(FEE1, 1, TRUE), "A1", UserScript, 0, 0, "A2", 0),
         TransferTx(Tx(FEE2, 1, TRUE), "A1", UserScript, 0, 0, "A2", 0),
         TransferTx(Tx(FEE2, 1, TRUE), "A1", UserScript, 1, 0, "A2", 1)}}

C6_PrefixDecides ==
    store # <<>> =>
        \A rs \in SeqsUpTo(C6Receipts, MaxReceipts) :
            LET v == verify_block(Child(get_chain_head, rs, 0, get_owner.minter),
                                  get_chain_head)
            IN  IF \A i \in DOMAIN rs : ReceiptCovered(rs, i)
                THEN IsOk(v)
                ELSE IsErr(v) /\ v.err.block = "Tx"

C6_ReceiptsValidatedInOrder ==
    /\ []C6_PrefixDecides
    /\ [][Inserted =>
            \A i \in DOMAIN LastBlock'.receipts :
                ReceiptCovered(LastBlock'.receipts, i)]_vars

\* a block with two transfers from one address was inserted, the second
\* paying the raised fee
C6_Witness ==
    /\ result = Ok(<<>>)
    /\ Len(store) > 1
    /\ Len(LastBlock.receipts) = 2
    /\ \A i \in {1, 2} :
          LastBlock.receipts[i].tx.type = "Transfer" /\ LastBlock.receipts[i].tx.from = "A1"
    /\ LastBlock.receipts[2].tx.base.fee = FEE2

(***************************************************************************)
(* C7.  execute_tx on a Transfer applies its checks in sequence, the first *)
(* failing check deciding the result, and changes no ledger state.  As     *)
(* stated the sequence goes from the amount check to the fee comparison;   *)
(* as amended, a fee that cannot be computed (the address fee multiplier   *)
(* overflows an Asset) gives Arithmetic between the two.                   *)
(***************************************************************************)
TxSpends(a) == 1 + AddressFeeScan(a, chain_height, 0)

\* GRAEL_FEE_MULT ^ count as an Asset amount does not fit
FeeOverflows(a) == Pow2(TxSpends(a)) * SCALE > MAX_AMOUNT

TransferOutcome(tx, res, fee_may_overflow) ==
    IF tx.base.nsigs > MAX_TX_SIGNATURES THEN res = Err(TxErr("TooManySignatures"))
    ELSE IF tx.script.len > MAX_SCRIPT_BYTE_SIZE THEN res = Err(TxErr("TxTooLarge"))
    ELSE IF tx.memo > MAX_MEMO_BYTE_SIZE THEN res = Err(TxErr("TxTooLarge"))
    ELSE IF tx.amount < 0 THEN res = Err(TxErr("InvalidAmount"))
    ELSE IF fee_may_overflow /\ FeeOverflows(tx.from) THEN res = Err(TxErr("Arithmetic"))
    ELSE IF tx.base.fee < GRAEL_FEE_MIN + GRAEL_FEE_MIN * Pow2(TxSpends(tx.from))
         THEN res = Err(TxErr("InvalidFeeAmount"))
    ELSE IF tx.from # ScriptHash(tx.script) THEN res = Err(TxErr("ScriptHashMismatch"))
    ELSE IF balances[tx.from] - tx.base.fee - tx.amount < 0
         THEN res \in {Err(TxErr("InvalidAmount")), Err(TxErr("Arithmetic"))}
    ELSE IF ~tx.base.sig_ok THEN res = Err(ScriptEvalErr("ScriptRetFalse"))
    ELSE res = Ok(<<LogTransfer(tx.args.to, tx.args.amount)>>)

IsTransferResult ==
    IsSome(tx_result.tx) /\ Unwrap(tx_result.tx).type = "Transfer"

ExecuteTxIsPure == [][IsSome(tx_result'.tx) => ledger' = ledger]_vars

C7_TransferChecksAsStated ==
    /\ [](IsTransferResult =>
            TransferOutcome(Unwrap(tx_result.tx), tx_result.res, FALSE))
    /\ ExecuteTxIsPure

C7_TransferChecksAmended ==
    /\ [](IsTransferResult =>
            TransferOutcome(Unwrap(tx_result.tx), tx_result.res, TRUE))
    /\ ExecuteTxIsPure

C7_Witness ==
    /\ IsTransferResult
    /\ FeeOverflows(Unwrap(tx_result.tx).from)
    /\ tx_result.res = Err(TxErr("Arithmetic"))

(***************************************************************************)
(* C8.  Owner rotation.  An Owner transaction is accepted only with a zero *)
(* fee, the current owner's wallet equal to the hash of its script and the *)
(* script evaluating successfully; a block is accepted only if signed by   *)
(* the minter key of get_owner(), any other key giving InvalidSignature.   *)
(* As stated, after a block is inserted get_owner() returns every Owner    *)
(* transaction the block contains; as amended, the last of them.           *)
(***************************************************************************)
OwnerTxs == {tx \in GoodTxs \cup DefectTxs : tx.type = "Owner"}

OwnerOutcome(tx) ==
    IF tx.base.fee # 0 THEN Err(BlockErrTx(TxErr("InvalidFeeAmount")))
    ELSE IF get_owner.wallet # ScriptHash(tx.script)
         THEN Err(BlockErrTx(TxErr("ScriptHashMismatch")))
    ELSE IF tx.script.code = "false" \/ ~tx.base.sig_ok
         THEN Err(BlockErrTx(ScriptEvalErr("ScriptRetFalse")))
    ELSE Ok(<<>>)

OwnerTxAccepted ==
    store # <<>> =>
        \A tx \in OwnerTxs :
            verify_block(Child(get_chain_head, <<HonestReceipt(tx)>>, 0, get_owner.minter),
                         get_chain_head) = OwnerOutcome(tx)

SignedByMinter ==
    store # <<>> =>
        \A k \in Keys :
            verify_block(Child(get_chain_head, <<>>, 0, k), get_chain_head)
                = IF k = get_owner.minter THEN Ok(<<>>)
                  ELSE Err(BlockErr("InvalidSignature"))

OwnerReceipts(block) ==
    {i \in DOMAIN block.receipts : block.receipts[i].tx.type = "Owner"}

LastOwnerReceipt(block) ==
    CHOOSE i \in OwnerReceipts(block) : \A j \in OwnerReceipts(block) : j <= i

C8_OwnerIsEveryOwnerTx ==
    /\ []OwnerTxAccepted
    /\ []SignedByMinter
    /\ [][Inserted =>
            \A i \in OwnerReceipts(LastBlock') :
                get_owner' = LastBlock'.receipts[i].tx]_vars

C8_OwnerIsLastOwnerTx ==
    /\ [](OwnerTxAccepted /\ SignedByMinter)
    /\ [][Inserted =>
            IF OwnerReceipts(LastBlock') = {} THEN get_owner' = get_owner
            ELSE get_owner' = LastBlock'.receipts[LastOwnerReceipt(LastBlock')].tx]_vars

\* a block with two Owner transactions was inserted, and a block signed by
\* the key of the first is rejected
C8_Witness ==
    /\ result = Ok(<<>>)
    /\ Len(store) = 2
    /\ Cardinality(OwnerReceipts(LastBlock)) = 2
    /\ LastBlock.receipts[1].tx.minter = "K1"
    /\ get_owner = LastBlock.receipts[2].tx
    /\ get_owner.minter = "K0"
    /\ verify_block(Child(get_chain_head, <<>>, 0, "K1"), get_chain_head)
          = Err(BlockErr("InvalidSignature"))

(***************************************************************************)
(* C9.  For every block of Mint receipts that verify_block accepts,        *)
(* index_block overflows neither token_supply nor a balance.               *)
(***************************************************************************)
MintReceipts == {HonestReceipt(tx) : tx \in {t \in GoodTxs : t.type = "Mint"}}

C9_AcceptedMintsNeverOverflow ==
    store # <<>> =>
        \A rs \in SeqsUpTo(MintReceipts, MaxReceipts) :
            LET block == Child(get_chain_head, rs, 0, get_owner.minter)
            IN  IsOk(verify_block(block, get_chain_head))
                    => ~index_block(WriteBatch_new, block).panicked

(***************************************************************************)
(* C10.  The permissions check of execute_tx on a CreateAccount rejects    *)
(* with InvalidAccountPermissions exactly the permissions that are neither *)
(* threshold <= |keys| <= MAX_PERM_KEYS nor the immutable threshold with   *)
(* no keys.                                                                *)
(***************************************************************************)
PermissionsValid(perms) ==
    \/ perms.threshold <= perms.keys /\ perms.keys <= MAX_PERM_KEYS
    \/ perms.threshold = IMMUTABLE_ACCOUNT_THRESHOLD /\ perms.keys = 0

C10_PermissionsCheck ==
    (IsSome(tx_result.tx) /\ Unwrap(tx_result.tx).type = "CreateAccount") =>
        ((tx_result.res = Err(TxErr("InvalidAccountPermissions")))
            <=> ~PermissionsValid(Unwrap(tx_result.tx).account.permissions))

(***************************************************************************)
(* The replication peers.  A request and its response are one exchange     *)
(* over a peer connection: the receiver handles the request, and the       *)
(* sender handles the response unless the response is lost.  The handlers  *)
(* are functions of the state of one peer.                                 *)
(***************************************************************************)
MaxTerm == 2
MaxLogLen == 2
BatchSize == 1

Entry(term, data) == [term |-> term, data |-> data]

PreVoteReq(last_index, last_term) ==
    [last_index |-> last_index, last_term |-> last_term]

RequestVoteReq(term, last_index, last_term) ==
    [term |-> term, last_index |-> last_index, last_term |-> last_term]

AppendEntriesReq(term, prev_index, prev_term, leader_commit, entries) ==
    [term |-> term, prev_index |-> prev_index, prev_term |-> prev_term,
     leader_commit |-> leader_commit, entries |-> entries]

LogSyncReq(last_index, last_term) ==
    [last_index |-> last_index, last_term |-> last_term]

PreVoteRes(approved) == [approved |-> approved]

RequestVoteRes(term, approved) == [current_term |-> term, approved |-> approved]

AppendEntriesRes(term, success, index) ==
    [current_term |-> term, success |-> success, index |-> index]

LogSyncRes(leader_commit, complete, entries) ==
    [leader_commit |-> leader_commit, complete |-> complete, entries |-> entries]

Max(a, b) == IF a >= b THEN a ELSE b
Min(a, b) == IF a <= b THEN a ELSE b

Majority(S) == 2 * Cardinality(S) > Cardinality(Peers)

\* the state of peer p
PeerState(p) ==
    [current_term |-> current_term[p], voted_for |-> voted_for[p], role |-> role[p],
     log |-> log_view[p], commit_index |-> commit_index[p],
     next_index |-> next_index[p], match_index |-> match_index[p],
     pre_votes |-> pre_votes[p], votes |-> votes[p]]

LastIndex(st) == Len(st.log)
LastTerm(st) == IF st.log = <<>> THEN 0 ELSE st.log[Len(st.log)].term

\* (last_term, last_index) is at least the peer's own, in lexicographic order
UpToDate(last_index, last_term, st) ==
    \/ last_term > LastTerm(st)
    \/ last_term = LastTerm(st) /\ last_index >= LastIndex(st)

\* the entry at prev_index has term prev_term
LogMatches(st, prev_index, prev_term) ==
    \/ prev_index = 0
    \/ prev_index <= Len(st.log) /\ st.log[prev_index].term = prev_term

StepDown(st, term) ==
    [st EXCEPT !.current_term = term, !.role = "Follower", !.voted_for = NoPeer,
               !.pre_votes = {}, !.votes = {}]

\* ObserveTerm that adopts the term and keeps the vote of the earlier term
ObserveTerm_keep_vote(st, term) ==
    IF term > st.current_term
    THEN [st EXCEPT !.current_term = term, !.role = "Follower", !.pre_votes = {},
                    !.votes = {}]
    ELSE st

\* a strictly higher term forces a step-down before the message is handled
ObserveTerm(st, term) == IF term > st.current_term THEN StepDown(st, term) ELSE st

HandlePreVote(st, req) == PreVoteRes(UpToDate(req.last_index, req.last_term, st))

NotVotedIn(st, term) == ~(st.current_term = term /\ st.voted_for # NoPeer)

\* HandleRequestVote without the two conditions that make a vote unique in
\* its term: a peer grants again in a term it has voted in
HandleRequestVote_revote(st, from, req) ==
    LET grant == /\ req.term >= st.current_term
                 /\ UpToDate(req.last_index, req.last_term, st)
        st1 == ObserveTerm(st, req.term)
        st2 == IF grant THEN [st1 EXCEPT !.voted_for = from] ELSE st1
    IN  [res |-> RequestVoteRes(st2.current_term, grant), st |-> st2]

\* HandleRequestVote without the comparison of the logs
HandleRequestVote_any_log(st, from, req) ==
    LET grant == /\ req.term > st.current_term
                 /\ NotVotedIn(st, req.term)
        st1 == ObserveTerm(st, req.term)
        st2 == IF grant THEN [st1 EXCEPT !.voted_for = from] ELSE st1
    IN  [res |-> RequestVoteRes(st2.current_term, grant), st |-> st2]

HandleRequestVote(st, from, req) ==
    LET grant == /\ req.term > st.current_term
                 /\ UpToDate(req.last_index, req.last_term, st)
                 /\ NotVotedIn(st, req.term)
        st1 == ObserveTerm(st, req.term)
        st2 == IF grant THEN [st1 EXCEPT !.voted_for = from] ELSE st1
    IN  [res |-> RequestVoteRes(st2.current_term, grant), st |-> st2]

HandleRequestVoteRes(st, from, res) ==
    IF res.current_term > st.current_term THEN StepDown(st, res.current_term)
    ELSE IF res.current_term < st.current_term THEN st
    ELSE IF st.role = "Candidate" /\ res.approved
         THEN [st EXCEPT !.votes = @ \cup {from}]
    ELSE st

\* the follower's log after the entries that follow prev_index: an entry
\* that conflicts with a new one is deleted with all that follow it
RECURSIVE MergeEntries(_, _, _)
MergeEntries(entries_log, prev_index, entries) ==
    IF entries = <<>> THEN entries_log
    ELSE IF /\ prev_index + 1 <= Len(entries_log)
            /\ entries_log[prev_index + 1].term = entries[1].term
         THEN MergeEntries(entries_log, prev_index + 1, Tail(entries))
    ELSE SubSeq(entries_log, 1, prev_index) \o entries

HandleAppendEntries(st, from, req) ==
    IF req.term < st.current_term
    THEN [res |-> AppendEntriesRes(st.current_term, FALSE, 0), st |-> st]
    ELSE LET st1 == ObserveTerm(st, req.term)
             st2 == [st1 EXCEPT !.role = IF @ = "Candidate" THEN "Follower" ELSE @,
                                !.pre_votes = {}, !.votes = {}]
             last_new == req.prev_index + Len(req.entries)
         IN  IF ~LogMatches(st2, req.prev_index, req.prev_term)
             THEN [res |-> AppendEntriesRes(st2.current_term, FALSE, 0), st |-> st2]
             ELSE [res |-> AppendEntriesRes(st2.current_term, TRUE, last_new),
                   st |-> [st2 EXCEPT
                             !.log = MergeEntries(@, req.prev_index, req.entries),
                             !.commit_index =
                                 Max(@, Min(req.leader_commit, last_new))]]

\* AdvanceCommit that counts replicas alone
AdvanceCommit_any_term(st, self) ==
    LET ready == {n \in (st.commit_index + 1) .. Len(st.log) :
                    Majority({self} \cup {q \in Peers \ {self} : st.match_index[q] >= n})}
    IN  IF ready = {} THEN st
        ELSE [st EXCEPT !.commit_index = CHOOSE n \in ready : \A m \in ready : m <= n]

\* the highest index replicated on a majority whose entry is of the
\* leader's term
AdvanceCommit(st, self) ==
    LET ready == {n \in (st.commit_index + 1) .. Len(st.log) :
                    /\ Majority({self} \cup {q \in Peers \ {self} : st.match_index[q] >= n})
                    /\ st.log[n].term = st.current_term}
    IN  IF ready = {} THEN st
        ELSE [st EXCEPT !.commit_index = CHOOSE n \in ready : \A m \in ready : m <= n]

HandleAppendEntriesRes(st, self, from, res) ==
    IF res.current_term > st.current_term THEN StepDown(st, res.current_term)
    ELSE IF res.current_term < st.current_term \/ st.role # "Leader" THEN st
    ELSE IF res.success
         THEN LET m == Max(st.match_index[from], res.index)
              IN  AdvanceCommit([st EXCEPT !.match_index[from] = m,
                                           !.next_index[from] = m + 1], self)
    ELSE [st EXCEPT !.next_index[from] = Max(1, @ - 1)]

\* the leader's answer to LogSync: the next batch after the follower's last
\* entry, or nothing when the leader's log has no such entry
HandleLogSync(st, req) ==
    LET matches == /\ req.last_index <= Len(st.log)
                   /\ LogMatches(st, req.last_index, req.last_term)
        upto == Min(req.last_index + BatchSize, Len(st.log))
        entries == IF matches THEN SubSeq(st.log, req.last_index + 1, upto) ELSE <<>>
    IN  LogSyncRes(st.commit_index,
                   ~matches \/ req.last_index + Len(entries) = Len(st.log),
                   entries)

HandleLogSyncRes(st, res) ==
    IF res.entries = <<>> THEN st
    ELSE LET newlog == st.log \o res.entries
         IN  [st EXCEPT !.log = newlog,
                        !.commit_index = Max(@, Min(res.leader_commit, Len(newlog)))]

\* the peers of DOMAIN f take the states f gives them
SetPeers(f) ==
    LET new(p) == IF p \in DOMAIN f THEN f[p] ELSE PeerState(p)
    IN  /\ current_term' = [p \in Peers |-> new(p).current_term]
        /\ voted_for' = [p \in Peers |-> new(p).voted_for]
        /\ role' = [p \in Peers |-> new(p).role]
        /\ log_view' = [p \in Peers |-> new(p).log]
        /\ commit_index' = [p \in Peers |-> new(p).commit_index]
        /\ next_index' = [p \in Peers |-> new(p).next_index]
        /\ match_index' = [p \in Peers |-> new(p).match_index]
        /\ pre_votes' = [p \in Peers |-> new(p).pre_votes]
        /\ votes' = [p \in Peers |-> new(p).votes]

NotPeers == <<ledger, result, tx_result, threads, script_result, server>>

\* the election timer of p fires: p starts a pre-vote round
ElectionTimeout(p) ==
    /\ role[p] # "Leader"
    /\ pre_votes[p] = {}
    /\ current_term[p] < MaxTerm
    /\ SetPeers(p :> [PeerState(p) EXCEPT !.role = "Follower", !.pre_votes = {p},
                                          !.votes = {}])
    /\ UNCHANGED <<leaders, NotPeers>>

PreVote(p, q, delivered) ==
    LET st == PeerState(p)
        res == HandlePreVote(PeerState(q), PreVoteReq(LastIndex(st), LastTerm(st)))
    IN  /\ p # q
        /\ role[p] = "Follower"
        /\ p \in pre_votes[p]
        /\ SetPeers(p :> IF delivered /\ res.approved
                         THEN [st EXCEPT !.pre_votes = @ \cup {q}] ELSE st)
        /\ UNCHANGED <<leaders, NotPeers>>

\* BecomeCandidate without waiting for the approvals
BecomeCandidate_alone(p) ==
    /\ role[p] = "Follower"
    /\ p \in pre_votes[p]
    /\ current_term[p] < MaxTerm
    /\ SetPeers(p :> [PeerState(p) EXCEPT !.current_term = @ + 1, !.voted_for = p,
                                          !.role = "Candidate", !.votes = {p},
                                          !.pre_votes = {}])
    /\ UNCHANGED <<leaders, NotPeers>>

BecomeCandidate(p) ==
    /\ role[p] = "Follower"
    /\ Majority(pre_votes[p])
    /\ current_term[p] < MaxTerm
    /\ SetPeers(p :> [PeerState(p) EXCEPT !.current_term = @ + 1, !.voted_for = p,
                                          !.role = "Candidate", !.votes = {p},
                                          !.pre_votes = {}])
    /\ UNCHANGED <<leaders, NotPeers>>

RequestVote(p, q, delivered) ==
    LET st == PeerState(p)
        h == HandleRequestVote(PeerState(q), p,
                               RequestVoteReq(st.current_term, LastIndex(st), LastTerm(st)))
    IN  /\ p # q
        /\ role[p] = "Candidate"
        /\ SetPeers((q :> h.st) @@
                    (p :> IF delivered THEN HandleRequestVoteRes(st, q, h.res) ELSE st))
        /\ UNCHANGED <<leaders, NotPeers>>

BecomeLeader(p) ==
    /\ role[p] = "Candidate"
    /\ Majority(votes[p])
    /\ SetPeers(p :> [PeerState(p) EXCEPT
                        !.role = "Leader", !.votes = {},
                        !.next_index = [q \in Peers |-> Len(log_view[p]) + 1],
                        !.match_index = [q \in Peers |-> 0]])
    /\ leaders' = leaders \cup {<<current_term[p], p>>}
    /\ UNCHANGED NotPeers

\* a new local commit on the leader becomes an entry of its log; the data
\* of the entry is the block of that leader
ClientRequest(p) ==
    /\ role[p] = "Leader"
    /\ Len(log_view[p]) < MaxLogLen
    /\ SetPeers(p :> [PeerState(p) EXCEPT
                        !.log = Append(@, Entry(current_term[p], p))])
    /\ UNCHANGED <<leaders, NotPeers>>

\* leader p sends q a heartbeat (n = 0) or the next n entries
AppendEntries(p, q, n, delivered) ==
    LET st == PeerState(p)
        prev_index == st.next_index[q] - 1
        prev_term == IF prev_index = 0 THEN 0 ELSE st.log[prev_index].term
        entries == SubSeq(st.log, prev_index + 1, Min(prev_index + n, Len(st.log)))
        h == HandleAppendEntries(PeerState(q), p,
                 AppendEntriesReq(st.current_term, prev_index, prev_term,
                                  st.commit_index, entries))
    IN  /\ p # q
        /\ role[p] = "Leader"
        /\ Len(entries) = n
        /\ SetPeers((q :> h.st) @@
                    (p :> IF delivered THEN HandleAppendEntriesRes(st, p, q, h.res)
                          ELSE st))
        /\ UNCHANGED <<leaders, NotPeers>>

\* follower q asks p, which takes itself for the leader, for the next batch
LogSync(q, p) ==
    LET st == PeerState(q)
        res == HandleLogSync(PeerState(p), LogSyncReq(LastIndex(st), LastTerm(st)))
    IN  /\ p # q
        /\ role[q] = "Follower"
        /\ role[p] = "Leader"
        /\ SetPeers(q :> HandleLogSyncRes(st, res))
        /\ UNCHANGED <<leaders, NotPeers>>

RaftNext ==
    \/ \E p \in Peers : ElectionTimeout(p)
    \/ \E p, q \in Peers : \E delivered \in BOOLEAN : PreVote(p, q, delivered)
    \/ \E p \in Peers : BecomeCandidate(p)
    \/ \E p, q \in Peers : \E delivered \in BOOLEAN : RequestVote(p, q, delivered)
    \/ \E p \in Peers : BecomeLeader(p)
    \/ \E p \in Peers : ClientRequest(p)
    \/ \E p, q \in Peers : \E n \in 0 .. BatchSize : \E delivered \in BOOLEAN :
          AppendEntries(p, q, n, delivered)
    \/ \E p, q \in Peers : LogSync(q, p)

SpecRaft == Init /\ [][RaftNext]_vars

(***************************************************************************)
(* The replication wire format (consensus/net/rpc.rs).  A byte holds a     *)
(* digit below BYTE_BASE; the widths in bytes are those of the code.       *)
(* BytesMut, the BufRead reads of a Cursor and Entry (log.rs) are not in   *)
(* src: a put appends, growing the buffer when its capacity is exceeded; a *)
(* take fails on a short read; an Entry is u64 index, u64 term and the     *)
(* data as a u32 length followed by the bytes.                             *)
(***************************************************************************)
BYTE_BASE == 8
U64_BYTES == 8
U32_BYTES == 4
U64_MAX == 16777215
ISIZE_MAX == 8388607
ENTRY_MEM_SIZE == 48

RECURSIVE be_bytes(_, _)
\* the n low digits of v, most significant first
be_bytes(v, n) ==
    IF n = 0 THEN <<>> ELSE Append(be_bytes(v \div BYTE_BASE, n - 1), v % BYTE_BASE)

RECURSIVE be_value(_, _)
be_value(bytes, n) ==
    IF n = 0 THEN 0 ELSE be_value(bytes, n - 1) * BYTE_BASE + bytes[n]

BytesMut_with_capacity(capacity) == [bytes |-> <<>>, capacity |-> capacity]

put_slice(dst, bytes) ==
    LET len == Len(dst.bytes) + Len(bytes)
    IN  [bytes |-> dst.bytes \o bytes,
         capacity |-> IF len > dst.capacity THEN Max(2 * dst.capacity, len)
                      ELSE dst.capacity]

put_u8(dst, v) == put_slice(dst, <<v % BYTE_BASE>>)
put_u32(dst, v) == put_slice(dst, be_bytes(v, U32_BYTES))
put_u64(dst, v) == put_slice(dst, be_bytes(v, U64_BYTES))
bool_into_u8(b) == IF b THEN 1 ELSE 0

Cursor_new(buf) == [buf |-> buf, pos |-> 0]
Remaining(src) == Len(src.buf) - src.pos

\* a read of n bytes: the value and the advanced cursor, or UnexpectedEof
take(src, n) ==
    IF Remaining(src) < n THEN Err("UnexpectedEof")
    ELSE Ok([val |-> be_value(SubSeq(src.buf, src.pos + 1, src.pos + n), n),
             src |-> [src EXCEPT !.pos = src.pos + n]])

take_u8(src) == take(src, 1)
take_u32(src) == take(src, U32_BYTES)
take_u64(src) == take(src, U64_BYTES)

LogEntry(index, term, data) == [index |-> index, term |-> term, data |-> data]

Entry_serialize(dst, e) ==
    put_slice(put_u32(put_u64(put_u64(dst, e.index), e.term), Len(e.data)), e.data)

Entry_byte_size(e) == U64_BYTES + U64_BYTES + U32_BYTES + Len(e.data)

Entry_deserialize(src) ==
    LET index == take_u64(src)
        term == take_u64(index.val.src)
        len == take_u32(term.val.src)
        at == len.val.src
    IN  IF IsErr(index) THEN index
        ELSE IF IsErr(term) THEN term
        ELSE IF IsErr(len) THEN len
        ELSE IF Remaining(at) < len.val.val THEN Err("UnexpectedEof")
        ELSE Ok([val |-> LogEntry(index.val.val, term.val.val,
                                  SubSeq(at.buf, at.pos + 1, at.pos + len.val.val)),
                 src |-> [at EXCEPT !.pos = at.pos + len.val.val]])

RECURSIVE serialize_entries(_, _, _)
\* for e in &entries { e.serialize(dst) }
serialize_entries(dst, entries, i) ==
    IF i > Len(entries) THEN dst
    ELSE serialize_entries(Entry_serialize(dst, entries[i]), entries, i + 1)

RECURSIVE entries_byte_size(_, _)
\* entries.iter().fold(0, |acc, entry| acc + entry.byte_size())
entries_byte_size(entries, i) ==
    IF i > Len(entries) THEN 0
    ELSE Entry_byte_size(entries[i]) + entries_byte_size(entries, i + 1)

RECURSIVE take_entries(_, _, _)
\* for _ in 0..len { entries.push(Entry::deserialize(src)?) }
take_entries(src, len, entries) ==
    IF len = 0 THEN Ok([val |-> entries, src |-> src])
    ELSE LET e == Entry_deserialize(src)
         IN  IF IsErr(e) THEN e
             ELSE take_entries(e.val.src, len - 1, Append(entries, e.val.val))

\* the length, Vec::with_capacity(len as usize), then the entries;
\* with_capacity panics (capacity overflow) when len entries need more
\* than isize::MAX bytes
take_entry_list(src) ==
    LET len == take_u64(src)
    IN  IF IsErr(len) THEN len
        ELSE IF len.val.val * ENTRY_MEM_SIZE > ISIZE_MAX
        THEN PanickedIn("Vec::with_capacity")
        ELSE take_entries(len.val.src, len.val.val, <<>>)

\* a variant of enum Request or enum Response around its struct
Variant(name, body) == [variant |-> name, body |-> body]

Request_serialize(req, dst) ==
    LET b == req.body
    IN  CASE req.variant = "PreVote" ->
               put_u64(put_u64(put_u8(dst, 1), b.last_index), b.last_term)
          [] req.variant = "RequestVote" ->
               put_u64(put_u64(put_u64(put_u8(dst, 2), b.term), b.last_index),
                       b.last_term)
          [] req.variant = "AppendEntries" ->
               serialize_entries(
                   put_u64(put_u64(put_u64(put_u64(put_u64(put_u8(dst, 3), b.term),
                       b.prev_index), b.prev_term), b.leader_commit), Len(b.entries)),
                   b.entries, 1)
          [] req.variant = "LogSync" ->
               put_u64(put_u64(put_u8(dst, 4), b.last_index), b.last_term)

Request_byte_size_no_tag(req) ==
    CASE req.variant = "PreVote" -> 16
      [] req.variant = "RequestVote" -> 24
      [] req.variant = "AppendEntries" -> 40 + entries_byte_size(req.body.entries, 1)
      [] req.variant = "LogSync" -> 16

Request_byte_size(req) ==
    LET size == CASE req.variant = "PreVote" -> 16
                  [] req.variant = "RequestVote" -> 24
                  [] req.variant = "AppendEntries" ->
                        40 + entries_byte_size(req.body.entries, 1)
                  [] req.variant = "LogSync" -> 16
    IN  size + 1

\* Ok(request), Err(io error) or a panic
Request_deserialize(src) ==
    LET tag == take_u8(src)
        f1 == take_u64(tag.val.src)
        f2 == take_u64(f1.val.src)
        f3 == take_u64(f2.val.src)
        f4 == take_u64(f3.val.src)
        entries == take_entry_list(f4.val.src)
    IN  IF IsErr(tag) THEN tag
        ELSE CASE tag.val.val \in {1, 4} ->
                    IF IsErr(f1) THEN f1
                    ELSE IF IsErr(f2) THEN f2
                    ELSE Ok([val |-> IF tag.val.val = 1
                                     THEN Variant("PreVote",
                                                  PreVoteReq(f1.val.val, f2.val.val))
                                     ELSE Variant("LogSync",
                                                  LogSyncReq(f1.val.val, f2.val.val)),
                             src |-> f2.val.src])
               [] tag.val.val = 2 ->
                    IF IsErr(f1) THEN f1
                    ELSE IF IsErr(f2) THEN f2
                    ELSE IF IsErr(f3) THEN f3
                    ELSE Ok([val |-> Variant("RequestVote",
                                RequestVoteReq(f1.val.val, f2.val.val, f3.val.val)),
                             src |-> f3.val.src])
               [] tag.val.val = 3 ->
                    IF IsErr(f1) THEN f1
                    ELSE IF IsErr(f2) THEN f2
                    ELSE IF IsErr(f3) THEN f3
                    ELSE IF IsErr(f4) THEN f4
                    ELSE IF ~IsOk(entries) THEN entries
                    ELSE Ok([val |-> Variant("AppendEntries",
                                AppendEntriesReq(f1.val.val, f2.val.val, f3.val.val,
                                                 f4.val.val, entries.val.val)),
                             src |-> entries.val.src])
               [] OTHER -> Err("InvalidData")

Response_serialize(res, dst) ==
    LET b == res.body
    IN  CASE res.variant = "PreVote" ->
               put_u8(put_u8(dst, 1), bool_into_u8(b.approved))
          [] res.variant = "RequestVote" ->
               put_u8(put_u64(put_u8(dst, 2), b.current_term), bool_into_u8(b.approved))
          [] res.variant = "AppendEntries" ->
               put_u64(put_u8(put_u64(put_u8(dst, 3), b.current_term),
                              bool_into_u8(b.success)), b.index)
          [] res.variant = "LogSync" ->
               serialize_entries(
                   put_u64(put_u8(put_u64(put_u8(dst, 4), b.leader_commit),
                                  bool_into_u8(b.complete)), Len(b.entries)),
                   b.entries, 1)

Response_byte_size(res) ==
    LET size == CASE res.variant = "PreVote" -> 1
                  [] res.variant = "RequestVote" -> 9
                  [] res.variant = "AppendEntries" -> 17
                  [] res.variant = "LogSync" ->
                        17 + entries_byte_size(res.body.entries, 1)
    IN  size + 1

Response_deserialize(src) ==
    LET tag == take_u8(src)
    IN  IF IsErr(tag) THEN tag
        ELSE CASE tag.val.val = 1 ->
                    LET approved == take_u8(tag.val.src)
                    IN  IF IsErr(approved) THEN approved
                        ELSE Ok([val |-> Variant("PreVote",
                                            PreVoteRes(approved.val.val # 0)),
                                 src |-> approved.val.src])
               [] tag.val.val = 2 ->
                    LET term == take_u64(tag.val.src)
                        approved == take_u8(term.val.src)
                    IN  IF IsErr(term) THEN term
                        ELSE IF IsErr(approved) THEN approved
                        ELSE Ok([val |-> Variant("RequestVote",
                                    RequestVoteRes(term.val.val,
                                                   approved.val.val # 0)),
                                 src |-> approved.val.src])
               [] tag.val.val = 3 ->
                    LET term == take_u64(tag.val.src)
                        success == take_u8(term.val.src)
                        index == take_u64(success.val.src)
                    IN  IF IsErr(term) THEN term
                        ELSE IF IsErr(success) THEN success
                        ELSE IF IsErr(index) THEN index
                        ELSE Ok([val |-> Variant("AppendEntries",
                                    AppendEntriesRes(term.val.val,
                                        success.val.val # 0, index.val.val)),
                                 src |-> index.val.src])
               [] tag.val.val = 4 ->
                    LET commit == take_u64(tag.val.src)
                        complete == take_u8(commit.val.src)
                        entries == take_entry_list(complete.val.src)
                    IN  IF IsErr(commit) THEN commit
                        ELSE IF IsErr(complete) THEN complete
                        ELSE IF ~IsOk(entries) THEN entries
                        ELSE Ok([val |-> Variant("LogSync",
                                    LogSyncRes(commit.val.val,
                                               complete.val.val # 0,
                                               entries.val.val)),
                                 src |-> entries.val.src])
               [] OTHER -> Err("InvalidData")

MaxEntries == 2
WireValues == {0, 9, U64_MAX}
WireEntries == {LogEntry(1, 9, <<1, 2, 3>>), LogEntry(U64_MAX, 0, <<>>)}
WireEntryLists == SeqsUpTo(WireEntries, MaxEntries)

WireRequests ==
    {Variant("PreVote", PreVoteReq(i, t)) : i \in WireValues, t \in WireValues}
    \cup {Variant("RequestVote", RequestVoteReq(t, i, lt)) :
            t \in WireValues, i \in WireValues, lt \in WireValues}
    \cup {Variant("AppendEntries", AppendEntriesReq(t, i, pt, c, es)) :
            t \in WireValues, i \in {0, 9}, pt \in {0, 9}, c \in WireValues,
            es \in WireEntryLists}
    \cup {Variant("LogSync", LogSyncReq(i, t)) : i \in WireValues, t \in WireValues}

WireResponses ==
    {Variant("PreVote", PreVoteRes(a)) : a \in BOOLEAN}
    \cup {Variant("RequestVote", RequestVoteRes(t, a)) : t \in WireValues, a \in BOOLEAN}
    \cup {Variant("AppendEntries", AppendEntriesRes(t, s, i)) :
            t \in WireValues, s \in BOOLEAN, i \in WireValues}
    \cup {Variant("LogSync", LogSyncRes(c, d, es)) :
            c \in WireValues, d \in BOOLEAN, es \in WireEntryLists}

RequestBytes(req) == Request_serialize(req, BytesMut_with_capacity(0)).bytes
ResponseBytes(res) == Response_serialize(res, BytesMut_with_capacity(0)).bytes

CutShort(bytes) == {SubSeq(bytes, 1, n) : n \in 0 .. Len(bytes)}

\* bytes with the u64 at offset at replaced by n
WithU64(bytes, at, n) ==
    SubSeq(bytes, 1, at) \o be_bytes(n, U64_BYTES)
        \o SubSeq(bytes, at + U64_BYTES + 1, Len(bytes))

OtherTags == {0, 5, 7}
Counts == {1, 2, 3, 9, ISIZE_MAX \div ENTRY_MEM_SIZE, ISIZE_MAX \div ENTRY_MEM_SIZE + 1,
           U64_MAX}

\* serialized requests: whole, cut short, with another tag, and with
\* another announced entry count
RequestBufs ==
    LET sample == {RequestBytes(Variant("PreVote", PreVoteReq(9, 0))),
                   RequestBytes(Variant("RequestVote", RequestVoteReq(9, 0, U64_MAX))),
                   RequestBytes(Variant("LogSync", LogSyncReq(0, 9)))}
        append == {RequestBytes(Variant("AppendEntries",
                        AppendEntriesReq(9, 0, 0, U64_MAX, es))) : es \in WireEntryLists}
    IN  UNION {CutShort(b) : b \in sample \cup append}
        \cup {[b EXCEPT ![1] = t] : b \in sample \cup append, t \in OtherTags}
        \cup {WithU64(b, 1 + 4 * U64_BYTES, n) : b \in append, n \in Counts}

ResponseBufs ==
    LET sample == {ResponseBytes(Variant("PreVote", PreVoteRes(TRUE))),
                   ResponseBytes(Variant("RequestVote", RequestVoteRes(9, FALSE))),
                   ResponseBytes(Variant("AppendEntries",
                                         AppendEntriesRes(U64_MAX, TRUE, 9)))}
        sync == {ResponseBytes(Variant("LogSync", LogSyncRes(9, TRUE, es))) :
                    es \in WireEntryLists}
    IN  UNION {CutShort(b) : b \in sample \cup sync}
        \cup {[b EXCEPT ![1] = t] : b \in sample \cup sync, t \in OtherTags}
        \cup {WithU64(b, 1 + U64_BYTES + 1, n) : b \in sync, n \in Counts}

NotWire == <<ledger, result, tx_result, threads, raft, script_result,
             txs, minter_result, accepted, fee_log, conn_filter>>

\* tests::test_req_serialization: serialize into a buffer of byte_size
\* bytes, then deserialize
SerializeRequest ==
    /\ rpc_result = NoRpcResult
    /\ \E req_a \in WireRequests :
          LET bytes == Request_serialize(req_a,
                            BytesMut_with_capacity(Request_byte_size(req_a)))
          IN  rpc_result' = [kind |-> "serialize", direction |-> "Request",
                             value |-> req_a, byte_size |-> Request_byte_size(req_a),
                             bytes |-> bytes,
                             back |-> Request_deserialize(Cursor_new(bytes.bytes))]
    /\ UNCHANGED NotWire

\* tests::test_res_serialization
SerializeResponse ==
    /\ rpc_result = NoRpcResult
    /\ \E res_a \in WireResponses :
          LET bytes == Response_serialize(res_a,
                            BytesMut_with_capacity(Response_byte_size(res_a)))
          IN  rpc_result' = [kind |-> "serialize", direction |-> "Response",
                             value |-> res_a, byte_size |-> Response_byte_size(res_a),
                             bytes |-> bytes,
                             back |-> Response_deserialize(Cursor_new(bytes.bytes))]
    /\ UNCHANGED NotWire

\* Request::deserialize of bytes received from a peer
DeserializeRequest ==
    /\ rpc_result = NoRpcResult
    /\ \E buf \in RequestBufs :
          rpc_result' = [kind |-> "deserialize", direction |-> "Request", buf |-> buf,
                         res |-> Request_deserialize(Cursor_new(buf))]
    /\ UNCHANGED NotWire

\* Response::deserialize of bytes received from a peer
DeserializeResponse ==
    /\ rpc_result = NoRpcResult
    /\ \E buf \in ResponseBufs :
          rpc_result' = [kind |-> "deserialize", direction |-> "Response", buf |-> buf,
                         res |-> Response_deserialize(Cursor_new(buf))]
    /\ UNCHANGED NotWire

WireNext ==
    SerializeRequest \/ SerializeResponse \/ DeserializeRequest \/ DeserializeResponse

SpecWire == Init /\ [][WireNext]_vars

(***************************************************************************)
(* Keys in wallet import format (godcoin/crypto/key.rs).  A string is the  *)
(* sequence of its characters, a character of the Base58 alphabet being    *)
(* one byte long.  bs58, double_sha256 (crypto/util.rs) and sodiumoxide    *)
(* are not in src: bs58 is the conversion between base 256 and base 58     *)
(* that keeps leading zero bytes as '1'; double_sha256 and                 *)
(* keypair_from_seed are fixed functions of their input.                   *)
(***************************************************************************)
U8_RANGE == 256
BS58_BASE == 58
SEEDBYTES == 32
WIF_RAW_LEN == 37
WIF_CHECKSUM_LEN == 4
PUB_ADDRESS_PREFIX == <<"G", "O", "D">>
PRIV_BUF_PREFIX == 1
PUB_BUF_PREFIX == 2

BS58_ALPHABET ==
    <<"1", "2", "3", "4", "5", "6", "7", "8", "9", "A", "B", "C", "D", "E", "F", "G",
      "H", "J", "K", "L", "M", "N", "P", "Q", "R", "S", "T", "U", "V", "W", "X", "Y",
      "Z", "a", "b", "c", "d", "e", "f", "g", "h", "i", "j", "k", "m", "n", "o", "p",
      "q", "r", "s", "t", "u", "v", "w", "x", "y", "z">>

Bs58Chars == {BS58_ALPHABET[i] : i \in DOMAIN BS58_ALPHABET}

\* the length in bytes of the UTF-8 encoding of a character
char_len(c) == CASE c = "é" -> 2 [] c = "€" -> 3 [] OTHER -> 1

RECURSIVE str_len(_)
\* str::len: the length in bytes
str_len(s) == IF s = <<>> THEN 0 ELSE char_len(Head(s)) + str_len(Tail(s))

RECURSIVE chars_within(_, _)
\* the number of leading characters of s that end at or before byte n, or
\* -1 when byte n is not a character boundary
chars_within(s, n) ==
    IF n = 0 THEN 0
    ELSE IF s = <<>> \/ char_len(Head(s)) > n THEN 0 - 1
    ELSE LET within == chars_within(Tail(s), n - char_len(Head(s)))
         IN  IF within < 0 THEN within ELSE within + 1

RECURSIVE long_div(_, _, _, _)
\* digits (most significant first, in base from) after the remainder r,
\* divided by to: the quotient in base from and the remainder
long_div(digits, from, to, r) ==
    IF Len(digits) = 0 THEN [q |-> <<>>, r |-> r]
    ELSE IF Len(digits) = 1
    THEN [q |-> <<(r * from + digits[1]) \div to>>, r |-> (r * from + digits[1]) % to]
    ELSE LET mid == Len(digits) \div 2
             high == long_div(SubSeq(digits, 1, mid), from, to, r)
             low == long_div(SubSeq(digits, mid + 1, Len(digits)), from, to, high.r)
         IN  [q |-> high.q \o low.q, r |-> low.r]

RECURSIVE to_base(_, _, _)
\* the number digits (in base from) in base to, without leading zeros
to_base(digits, from, to) ==
    IF \A i \in DOMAIN digits : digits[i] = 0 THEN <<>>
    ELSE LET d == long_div(digits, from, to, 0)
         IN  Append(to_base(d.q, from, to), d.r)

RECURSIVE leading(_, _)
\* the number of leading elements of s equal to x
leading(s, x) == IF s = <<>> \/ Head(s) # x THEN 0 ELSE 1 + leading(Tail(s), x)

bs58_encode(bytes) ==
    LET zeros == leading(bytes, 0)
        digits == to_base(bytes, U8_RANGE, BS58_BASE)
    IN  [i \in 1 .. zeros |-> BS58_ALPHABET[1]]
        \o [i \in DOMAIN digits |-> BS58_ALPHABET[digits[i] + 1]]

bs58_decode(s) ==
    IF \E i \in DOMAIN s : s[i] \notin Bs58Chars THEN Err("InvalidCharacter")
    ELSE LET digits == [i \in DOMAIN s |->
                          (CHOOSE d \in DOMAIN BS58_ALPHABET : BS58_ALPHABET[d] = s[i]) - 1]
             ones == leading(s, BS58_ALPHABET[1])
         IN  Ok([i \in 1 .. ones |-> 0] \o to_base(digits, BS58_BASE, U8_RANGE))

\* the bytes of the double SHA-256 digest the code reads
double_sha256(bytes) ==
    [k \in 1 .. WIF_CHECKSUM_LEN |->
        SumOver([i \in DOMAIN bytes |-> ((i + k) * (bytes[i] + k)) % U8_RANGE],
                DOMAIN bytes) % U8_RANGE]

\* sign::keypair_from_seed: the public key and the secret key of a seed
keypair_from_seed(seed) ==
    LET pk == [i \in DOMAIN seed |-> (seed[i] * 7 + i) % U8_RANGE]
    IN  [pk |-> pk, sk |-> seed \o pk]

WifError(kind) == Err([kind |-> kind])

\* KeyPair(PublicKey, PrivateKey { seed, key })
KeyPair(seed) ==
    [public |-> keypair_from_seed(seed).pk,
     private |-> [seed |-> seed, key |-> keypair_from_seed(seed).sk]]

\* the checks of the decoded bytes shared by both from_wif: length, prefix
\* byte, checksum; Ok(the key bytes) or the error
check_raw(raw, prefix) ==
    IF Len(raw) # WIF_RAW_LEN THEN WifError("InvalidLen")
    ELSE IF raw[1] # prefix THEN WifError("InvalidPrefix")
    ELSE LET prefixed_key == SubSeq(raw, 1, Len(raw) - WIF_CHECKSUM_LEN)
             checksum_a == SubSeq(raw, Len(raw) - WIF_CHECKSUM_LEN + 1, Len(raw))
             checksum_b == double_sha256(prefixed_key)
         IN  IF checksum_a # checksum_b THEN WifError("InvalidChecksum")
             ELSE Ok(SubSeq(prefixed_key, 2, Len(prefixed_key)))

\* PublicKey::from_wif; &s[0..3] panics when byte 3 is inside a character
PublicKey_from_wif(s) ==
    LET within == chars_within(s, Len(PUB_ADDRESS_PREFIX))
        raw == bs58_decode(SubSeq(s, within + 1, Len(s)))
    IN  IF str_len(s) < Len(PUB_ADDRESS_PREFIX) THEN WifError("InvalidPrefix")
        ELSE IF within < 0 THEN PanickedIn("str slice")
        ELSE IF SubSeq(s, 1, within) # PUB_ADDRESS_PREFIX THEN WifError("InvalidPrefix")
        ELSE IF IsErr(raw) THEN WifError("InvalidBs58Encoding")
        ELSE check_raw(raw.val, PUB_BUF_PREFIX)

PublicKey_to_wif(key) ==
    LET buf == <<PUB_BUF_PREFIX>> \o key
    IN  PUB_ADDRESS_PREFIX \o bs58_encode(buf \o double_sha256(buf))

\* PrivateKey::from_wif: Ok(KeyPair) or the error
PrivateKey_from_wif(s) ==
    LET raw == bs58_decode(s)
        seed == check_raw(raw.val, PRIV_BUF_PREFIX)
    IN  IF IsErr(raw) THEN WifError("InvalidBs58Encoding")
        ELSE IF IsErr(seed) THEN seed
        ELSE Ok(KeyPair(seed.val))

PrivateKey_to_wif(private) ==
    LET buf == <<PRIV_BUF_PREFIX>> \o private.seed
    IN  bs58_encode(buf \o double_sha256(buf))

(***************************************************************************)
(* The keys and the strings given to from_wif: the strings to_wif makes,   *)
(* and those with another text prefix, another prefix byte (with the       *)
(* checksum of the changed bytes or the old one), another length, another  *)
(* checksum, a character outside the alphabet or of several bytes.         *)
(***************************************************************************)
WifSeeds ==
    {[i \in 1 .. SEEDBYTES |-> 0], [i \in 1 .. SEEDBYTES |-> U8_RANGE - 1],
     [i \in 1 .. SEEDBYTES |-> i], [i \in 1 .. SEEDBYTES |-> (i * 37) % U8_RANGE],
     [i \in 1 .. SEEDBYTES |-> IF i = 1 THEN 1 ELSE 0]}

WithChecksum(buf) == buf \o double_sha256(buf)

WithByte(bytes, at, b) == [bytes EXCEPT ![at] = b]

OtherPrefixBytes == {0, PRIV_BUF_PREFIX, PUB_BUF_PREFIX, U8_RANGE - 1}

WifRaws(prefix, key) ==
    LET raw == WithChecksum(<<prefix>> \o key)
        flipped(r, at) == WithByte(r, at, (r[at] + 1) % U8_RANGE)
    IN  {raw, SubSeq(raw, 1, Len(raw) - 1), Append(raw, 0), <<>>,
         SubSeq(raw, 1, Len(raw) - WIF_CHECKSUM_LEN)}
        \cup {flipped(raw, at) : at \in {2, Len(raw) - WIF_CHECKSUM_LEN + 1, Len(raw)}}
        \cup {WithChecksum(<<b>> \o key) : b \in OtherPrefixBytes}
        \cup {WithByte(raw, 1, b) : b \in OtherPrefixBytes}
        \cup {Tail(WithByte(raw, 1, b)) : b \in OtherPrefixBytes}

OtherTextPrefixes ==
    {<<>>, <<"G">>, <<"G", "O">>, <<"G", "O", "X">>, <<"g", "o", "d">>, <<"D", "O", "G">>,
     <<"G", "O", "€">>, <<"G", "é", "D">>, <<"é", "é">>, <<"G", "O", "D", "0">>,
     <<"G", "O", "D", "é">>}

PubWifInputs(seed) ==
    {PUB_ADDRESS_PREFIX \o bs58_encode(raw) :
        raw \in WifRaws(PUB_BUF_PREFIX, KeyPair(seed).public)}
    \cup {p \o bs58_encode(WithChecksum(<<PUB_BUF_PREFIX>> \o KeyPair(seed).public)) :
            p \in OtherTextPrefixes}

PrivWifInputs(seed) ==
    {bs58_encode(raw) : raw \in WifRaws(PRIV_BUF_PREFIX, seed)}
    \cup {p \o bs58_encode(WithChecksum(<<PRIV_BUF_PREFIX>> \o seed)) :
            p \in {<<"0">>, <<"é">>, <<"O">>}}

PublicKeyToFromWif ==
    /\ rpc_result = NoRpcResult
    /\ \E seed \in WifSeeds :
         LET key == KeyPair(seed).public
         IN  rpc_result' = [kind |-> "wif", op |-> "to_wif", type |-> "PublicKey",
                            key |-> key, s |-> PublicKey_to_wif(key),
                            res |-> PublicKey_from_wif(PublicKey_to_wif(key))]
    /\ UNCHANGED NotWire

PrivateKeyToFromWif ==
    /\ rpc_result = NoRpcResult
    /\ \E seed \in WifSeeds :
         LET pair == KeyPair(seed)
         IN  rpc_result' = [kind |-> "wif", op |-> "to_wif", type |-> "PrivateKey",
                            key |-> pair, s |-> PrivateKey_to_wif(pair.private),
                            res |-> PrivateKey_from_wif(PrivateKey_to_wif(pair.private))]
    /\ UNCHANGED NotWire

PublicKeyFromWif ==
    /\ rpc_result = NoRpcResult
    /\ \E seed \in WifSeeds : \E s \in PubWifInputs(seed) :
         rpc_result' = [kind |-> "wif", op |-> "from_wif", type |-> "PublicKey",
                        key |-> <<>>, s |-> s, res |-> PublicKey_from_wif(s)]
    /\ UNCHANGED NotWire

PrivateKeyFromWif ==
    /\ rpc_result = NoRpcResult
    /\ \E seed \in WifSeeds : \E s \in PrivWifInputs(seed) :
         rpc_result' = [kind |-> "wif", op |-> "from_wif", type |-> "PrivateKey",
                        key |-> <<>>, s |-> s, res |-> PrivateKey_from_wif(s)]
    /\ UNCHANGED NotWire

WifNext ==
    \/ PublicKeyToFromWif \/ PrivateKeyToFromWif
    \/ PublicKeyFromWif \/ PrivateKeyFromWif

SpecWif == Init /\ [][WifNext]_vars

(***************************************************************************)
(* The script engine (script/engine.rs).  A script is the sequence of the  *)
(* frames consume_op decodes; pos counts frames.  if_marker is a usize: a  *)
(* step below 0 or above USIZE_MAX panics in a debug build and wraps in a  *)
(* release build.                                                          *)
(***************************************************************************)
USIZE_MAX == 255

Builds == {"debug", "release"}

Frame(o, k, t, n) == [op |-> o, key |-> k, threshold |-> t, key_count |-> n]

PushTrue == Frame("True", "", 0, 0)
PushFalse == Frame("False", "", 0, 0)
PushPubKey(k) == Frame("PubKey", k, 0, 0)
OpNot == Frame("OpNot", "", 0, 0)
OpIf == Frame("OpIf", "", 0, 0)
OpElse == Frame("OpElse", "", 0, 0)
OpEndIf == Frame("OpEndIf", "", 0, 0)
OpReturn == Frame("OpReturn", "", 0, 0)
OpCheckSig == Frame("OpCheckSig", "", 0, 0)
OpCheckMultiSig(t, n) == Frame("OpCheckMultiSig", "", t, n)

BoolFrame(b) == IF b THEN PushTrue ELSE PushFalse

\* a transaction as the engine reads it: what encode writes, and the pairs
EngineTx(body, signature_pairs) == [body |-> body, signature_pairs |-> signature_pairs]

\* TxVariant::encode leaves the signature pairs out
encode(tx) == <<tx.body>>

\* TxVariant::encode_with_sigs: the count, the pairs, then encode
encode_with_sigs(tx) == <<Len(tx.signature_pairs), tx.signature_pairs, encode(tx)>>

\* SignTx::append_sign
append_sign(tx, key) ==
    [tx EXCEPT !.signature_pairs = Append(@, SigPair(key, encode(tx)))]

\* Ok(b), with the operand stack eval leaves behind
EvalOk(b, pos, stack) ==
    [tag |-> "Ok", value |-> b, err |-> "", pos |-> pos, stack |-> stack]
EvalErr(pos, err) == [tag |-> "Err", value |-> FALSE, err |-> err, pos |-> pos]
EvalPanic(pos) == [tag |-> "Panic", value |-> FALSE, err |-> "overflow", pos |-> pos]

\* Stack: the last element is the top
stack_push(stack, frame) == Append(stack, frame)

stack_pop(stack) ==
    IF stack = <<>> THEN [ok |-> FALSE, err |-> "StackUnderflow"]
    ELSE [ok |-> TRUE, frame |-> stack[Len(stack)],
          stack |-> SubSeq(stack, 1, Len(stack) - 1)]

pop_bool(stack) ==
    LET r == stack_pop(stack)
    IN  IF ~r.ok THEN r
        ELSE IF r.frame.op \notin {"True", "False"}
             THEN [ok |-> FALSE, err |-> "InvalidItemOnStack"]
        ELSE [ok |-> TRUE, value |-> r.frame.op = "True", stack |-> r.stack]

pop_pubkey(stack) ==
    LET r == stack_pop(stack)
    IN  IF ~r.ok THEN r
        ELSE IF r.frame.op # "PubKey"
             THEN [ok |-> FALSE, err |-> "InvalidItemOnStack"]
        ELSE [ok |-> TRUE, value |-> r.frame.key, stack |-> r.stack]

\* the keys of `for _ in 0..key_count { vec.push(pop_pubkey()?) }`
RECURSIVE PopKeys(_, _, _)
PopKeys(stack, key_count, keys) ==
    IF key_count = 0 THEN [ok |-> TRUE, keys |-> keys, stack |-> stack]
    ELSE LET r == pop_pubkey(stack)
         IN  IF ~r.ok THEN r
             ELSE PopKeys(r.stack, key_count - 1, Append(keys, r.value))

\* the index of the first pair of the key, 0 when there is none
FirstPair(tx, key) ==
    LET is == {i \in 1 .. Len(tx.signature_pairs) : tx.signature_pairs[i].pub_key = key}
    IN  IF is = {} THEN 0 ELSE CHOOSE i \in is : \A j \in is : i <= j

\* CheckSig that tries every pair of the key
CheckSig_any_pair(tx, key) ==
    \E i \in 1 .. Len(tx.signature_pairs) :
        /\ tx.signature_pairs[i].pub_key = key
        /\ SigVerify(tx.signature_pairs[i], encode(tx))

\* OpCheckSig: only the first pair of the key is tried
CheckSig(tx, key) ==
    LET i == FirstPair(tx, key)
    IN  i # 0 /\ SigVerify(tx.signature_pairs[i], encode(tx))

\* OpCheckMultiSig, 'key_loop: a key without a pair is passed over, a valid
\* first pair counts, an invalid first pair ends the loop with failure
RECURSIVE KeyLoop(_, _, _, _)
KeyLoop(tx, keys, k, valid_threshold) ==
    IF k > Len(keys) THEN [success |-> TRUE, valid_threshold |-> valid_threshold]
    ELSE LET i == FirstPair(tx, keys[k])
         IN  IF i = 0 THEN KeyLoop(tx, keys, k + 1, valid_threshold)
             ELSE IF SigVerify(tx.signature_pairs[i], encode(tx))
                  THEN KeyLoop(tx, keys, k + 1, valid_threshold + 1)
             ELSE [success |-> FALSE, valid_threshold |-> valid_threshold]

\* CheckMultiSig that passes over an invalid pair of a listed key
CheckMultiSig_count_only(tx, threshold, keys) ==
    IF threshold = 0 THEN TRUE
    ELSE IF threshold > Len(keys) THEN FALSE
    ELSE Cardinality({k \in 1 .. Len(keys) : CheckSig(tx, keys[k])}) >= threshold

CheckMultiSig(tx, threshold, keys) ==
    IF threshold = 0 THEN TRUE
    ELSE IF threshold > Len(keys) THEN FALSE
    ELSE LET r == KeyLoop(tx, keys, 1, 0)
         IN  r.success /\ r.valid_threshold >= threshold

\* if_marker += 1 and if_marker -= 1
MarkerAdd(if_marker, build) ==
    IF if_marker < USIZE_MAX THEN [ok |-> TRUE, value |-> if_marker + 1]
    ELSE IF build = "debug" THEN [ok |-> FALSE, value |-> 0]
    ELSE [ok |-> TRUE, value |-> 0]

MarkerSub(if_marker, build) ==
    IF if_marker > 0 THEN [ok |-> TRUE, value |-> if_marker - 1]
    ELSE IF build = "debug" THEN [ok |-> FALSE, value |-> 0]
    ELSE [ok |-> TRUE, value |-> USIZE_MAX]

\* consume_op_until with the matcher of OpIf and OpElse: skips frames up to
\* an OpElse or OpEndIf met with if_marker = req_if_marker
RECURSIVE consume_op_until(_, _, _, _, _)
consume_op_until(script, build, pos, if_marker, req_if_marker) ==
    IF pos = Len(script) THEN [tag |-> "eof", pos |-> pos, if_marker |-> if_marker]
    ELSE LET frame == script[pos + 1]
         IN  IF frame = OpIf
             THEN LET m == MarkerAdd(if_marker, build)
                  IN  IF ~m.ok THEN [tag |-> "panic", pos |-> pos + 1, if_marker |-> if_marker]
                      ELSE consume_op_until(script, build, pos + 1, m.value, req_if_marker)
             ELSE IF frame = OpElse
             THEN IF if_marker = req_if_marker
                  THEN [tag |-> "found", pos |-> pos + 1, if_marker |-> if_marker]
                  ELSE consume_op_until(script, build, pos + 1, if_marker, req_if_marker)
             ELSE IF frame = OpEndIf
             THEN LET m == MarkerSub(if_marker, build)
                  IN  IF ~m.ok THEN [tag |-> "panic", pos |-> pos + 1, if_marker |-> if_marker]
                      ELSE IF if_marker = req_if_marker
                      THEN [tag |-> "found", pos |-> pos + 1, if_marker |-> m.value]
                      ELSE consume_op_until(script, build, pos + 1, m.value, req_if_marker)
             ELSE consume_op_until(script, build, pos + 1, if_marker, req_if_marker)

\* the `while let Some(op) = self.consume_op()?` loop of eval and what
\* follows it
RECURSIVE EvalLoop(_, _, _, _, _, _, _)
EvalLoop(script, tx, build, pos, stack, if_marker, ignore_else) ==
    IF pos = Len(script)
    THEN IF if_marker > 0 THEN EvalErr(pos, "UnexpectedEOF")
         ELSE LET r == pop_bool(stack)
              IN  IF r.ok THEN EvalOk(r.value, pos, r.stack) ELSE EvalErr(pos, r.err)
    ELSE
    LET frame == script[pos + 1]
        next == pos + 1
        Skip(marker) ==
            LET u == consume_op_until(script, build, next, marker, marker)
            IN  IF u.tag = "eof" THEN EvalErr(u.pos, "UnexpectedEOF")
                ELSE IF u.tag = "panic" THEN EvalPanic(u.pos)
                ELSE [tag |-> "found", pos |-> u.pos, if_marker |-> u.if_marker]
    IN  IF frame.op = "OpNot"
        THEN LET r == pop_bool(stack)
             IN  IF ~r.ok THEN EvalErr(next, r.err)
                 ELSE EvalLoop(script, tx, build, next,
                               stack_push(r.stack, BoolFrame(~r.value)),
                               if_marker, ignore_else)
        ELSE IF frame.op = "OpIf"
        THEN LET m == MarkerAdd(if_marker, build)
                 r == pop_bool(stack)
             IN  IF ~m.ok THEN EvalPanic(next)
                 ELSE IF ~r.ok THEN EvalErr(next, r.err)
                 ELSE IF r.value
                      THEN EvalLoop(script, tx, build, next, r.stack, m.value, TRUE)
                 ELSE LET u == Skip(m.value)
                      IN  IF u.tag # "found" THEN u
                          ELSE EvalLoop(script, tx, build, u.pos, r.stack,
                                        u.if_marker, FALSE)
        ELSE IF frame.op = "OpElse"
        THEN IF ~ignore_else
             THEN EvalLoop(script, tx, build, next, stack, if_marker, ignore_else)
             ELSE LET u == Skip(if_marker)
                  IN  IF u.tag # "found" THEN u
                      ELSE EvalLoop(script, tx, build, u.pos, stack,
                                    u.if_marker, ignore_else)
        ELSE IF frame.op = "OpEndIf"
        THEN LET m == MarkerSub(if_marker, build)
             IN  IF ~m.ok THEN EvalPanic(next)
                 ELSE EvalLoop(script, tx, build, next, stack, m.value, ignore_else)
        ELSE IF frame.op = "OpReturn"
        THEN LET r == pop_bool(stack)
             IN  IF r.ok THEN EvalOk(r.value, next, r.stack) ELSE EvalErr(next, r.err)
        ELSE IF frame.op = "OpCheckSig"
        THEN LET r == pop_pubkey(stack)
             IN  IF ~r.ok THEN EvalErr(next, r.err)
                 ELSE EvalLoop(script, tx, build, next,
                               stack_push(r.stack, BoolFrame(CheckSig(tx, r.value))),
                               if_marker, ignore_else)
        ELSE IF frame.op = "OpCheckMultiSig"
        THEN LET r == PopKeys(stack, frame.key_count, <<>>)
             IN  IF ~r.ok THEN EvalErr(next, r.err)
                 ELSE EvalLoop(script, tx, build, next,
                               stack_push(r.stack,
                                   BoolFrame(CheckMultiSig(tx, frame.threshold, r.keys))),
                               if_marker, ignore_else)
        ELSE EvalLoop(script, tx, build, next, stack_push(stack, frame),
                      if_marker, ignore_else)

\* ScriptEngine::eval
eval(script, tx, build) == EvalLoop(script, tx, build, 0, <<>>, 0, FALSE)

(***************************************************************************)
(* consume_op on the bytes of a script.  Operand (script/op.rs) is not in  *)
(* src: the opcodes are distinct bytes, every other byte is an unknown op. *)
(* A public key takes PUBLICKEYBYTES bytes after its opcode,               *)
(* OpCheckMultiSig a threshold byte and a key count byte.                  *)
(***************************************************************************)
PUBLICKEYBYTES == 2

Operand ==
    [PushFalse |-> 0, PushTrue |-> 1, PushPubKey |-> 2, OpNot |-> 16, OpIf |-> 32,
     OpElse |-> 33, OpEndIf |-> 34, OpReturn |-> 35, OpCheckSig |-> 48,
     OpCheckMultiSig |-> 49]

FetchSome(frame, pos) == [tag |-> "Some", frame |-> frame, err |-> "", pos |-> pos]
FetchNone(pos) == [tag |-> "None", frame |-> PushFalse, err |-> "", pos |-> pos]
FetchErr(pos, err) == [tag |-> "Err", frame |-> PushFalse, err |-> err, pos |-> pos]

\* consume_op with self.pos = pos: the frame and the position after it
consume_op(script, pos) ==
    IF pos = Len(script) THEN FetchNone(pos)
    ELSE LET byte == script[pos + 1]
             next == pos + 1
         IN  CASE byte = Operand.PushFalse -> FetchSome(PushFalse, next)
               [] byte = Operand.PushTrue -> FetchSome(PushTrue, next)
               [] byte = Operand.PushPubKey ->
                    IF next + PUBLICKEYBYTES <= Len(script)
                    THEN FetchSome(PushPubKey(SubSeq(script, next + 1,
                                                     next + PUBLICKEYBYTES)),
                                   next + PUBLICKEYBYTES)
                    ELSE FetchErr(next, "UnexpectedEOF")
               [] byte = Operand.OpNot -> FetchSome(OpNot, next)
               [] byte = Operand.OpIf -> FetchSome(OpIf, next)
               [] byte = Operand.OpElse -> FetchSome(OpElse, next)
               [] byte = Operand.OpEndIf -> FetchSome(OpEndIf, next)
               [] byte = Operand.OpReturn -> FetchSome(OpReturn, next)
               [] byte = Operand.OpCheckSig -> FetchSome(OpCheckSig, next)
               [] byte = Operand.OpCheckMultiSig ->
                    IF next >= Len(script) THEN FetchErr(next, "UnexpectedEOF")
                    ELSE IF next + 1 >= Len(script)
                         THEN FetchErr(next + 1, "UnexpectedEOF")
                    ELSE FetchSome(OpCheckMultiSig(script[next + 1], script[next + 2]),
                                   next + 2)
               [] OTHER -> FetchErr(next, "UnknownOp")

\* the fetches of a loop that calls consume_op until it returns None or an
\* error (eval's while let, consume_op_until's loop): where each started
\* and what it returned
RECURSIVE consume_ops(_, _)
consume_ops(script, pos) ==
    LET r == consume_op(script, pos)
    IN  IF r.tag = "Some" THEN <<[from |-> pos, res |-> r]>> \o consume_ops(script, r.pos)
        ELSE <<[from |-> pos, res |-> r]>>

\* the scripts and transactions the engine is run on
MaxDepth == 2
MaxSigs == 2

Atoms == {<<>>, <<PushTrue>>}
Conds == {<<PushTrue>>, <<PushFalse>>}

IfElse(c, a, b) == c \o <<OpIf>> \o a \o <<OpElse>> \o b \o <<OpEndIf>>
IfOnly(c, a) == c \o <<OpIf>> \o a \o <<OpEndIf>>

\* the properly nested scripts of depth d at most
RECURSIVE NestedScripts(_)
NestedScripts(d) ==
    IF d = 0 THEN Atoms
    ELSE LET S == NestedScripts(d - 1)
         IN  S \cup {IfElse(c, a, b) : c \in Conds, a \in S, b \in S}
               \cup {IfOnly(c, a) : c \in Conds, a \in S}

\* scripts whose last OpIf has no OpEndIf after it
Prefixes ==
    LET ops == {PushTrue, PushFalse, OpNot, OpEndIf}
    IN  {<<>>} \cup {<<a>> : a \in ops} \cup {<<a, b>> : a \in ops, b \in ops}

UnendedBodies ==
    {<<>>, <<PushTrue>>, <<PushFalse>>, <<OpElse>>, <<PushFalse, OpElse, PushTrue>>}

UnendedScripts ==
    {p \o c \o <<OpIf>> \o b : p \in Prefixes, c \in Conds, b \in UnendedBodies}

TxBody == "transfer"
OtherBody == "other"

\* a pair by the key over this transaction, a pair with a forged signature
\* and a pair by the key over another transaction
EnginePairs ==
    UNION {{SigPair(k, <<TxBody>>), ForgedSigPair(k), SigPair(k, <<OtherBody>>)} :
             k \in Keys}

RECURSIVE PairSeqs(_)
PairSeqs(n) ==
    IF n = 0 THEN {<<>>}
    ELSE LET S == PairSeqs(n - 1)
         IN  S \cup {Append(ps, p) : ps \in S, p \in EnginePairs}

EngineTxs == {EngineTx(TxBody, ps) : ps \in PairSeqs(MaxSigs)}

RECURSIVE KeySeqs(_)
KeySeqs(n) ==
    IF n = 0 THEN {<<>>}
    ELSE LET S == KeySeqs(n - 1)
         IN  S \cup {Append(ks, k) : ks \in S, k \in Keys}

\* the script that pushes the keys and runs OpCheckMultiSig(threshold, n)
MultiSigScript(keys, threshold) ==
    [i \in 1 .. Len(keys) |-> PushPubKey(keys[i])]
        \o <<OpCheckMultiSig(threshold, Len(keys))>>

\* scripts without control flow but OpReturn, of MaxPlainLen frames at most
MaxPlainLen == 3

PlainOps == {PushTrue, PushFalse, PushPubKey("K0"), OpNot, OpReturn}

RECURSIVE PlainScripts(_)
PlainScripts(n) ==
    IF n = 0 THEN {<<>>}
    ELSE LET S == PlainScripts(n - 1)
         IN  S \cup {Append(q, o) : q \in S, o \in PlainOps}

\* what an engine made for the script and the transaction evaluates to
Evaluated(kind, script, tx, build) ==
    [kind |-> kind, script |-> script, tx |-> tx, build |-> build,
     res |-> eval(script, tx, build)]

NotEngine == <<ledger, result, tx_result, threads, raft, server>>

EvalNested ==
    /\ script_result = NoScriptResult
    /\ \E script \in NestedScripts(MaxDepth) : \E build \in Builds :
          script_result' = Evaluated("nested", script, EngineTx(TxBody, <<>>), build)
    /\ UNCHANGED NotEngine

EvalUnended ==
    /\ script_result = NoScriptResult
    /\ \E script \in UnendedScripts : \E build \in Builds :
          script_result' = Evaluated("unended", script, EngineTx(TxBody, <<>>), build)
    /\ UNCHANGED NotEngine

EvalCheckSig ==
    /\ script_result = NoScriptResult
    /\ \E key \in Keys : \E tx \in EngineTxs :
          script_result' =
              Evaluated("checksig", <<PushPubKey(key), OpCheckSig>>, tx, "release")
    /\ UNCHANGED NotEngine

EvalCheckMultiSig ==
    /\ script_result = NoScriptResult
    /\ \E keys \in KeySeqs(MaxSigs) : \E threshold \in 0 .. MaxSigs + 1 :
          \E tx \in EngineTxs :
              script_result' =
                  Evaluated("checkmultisig", MultiSigScript(keys, threshold), tx,
                            "release")
    /\ UNCHANGED NotEngine

EvalPlain ==
    /\ script_result = NoScriptResult
    /\ \E script \in PlainScripts(MaxPlainLen) : \E build \in Builds :
          script_result' = Evaluated("plain", script, EngineTx(TxBody, <<>>), build)
    /\ UNCHANGED NotEngine

\* two engines, each freshly made for the same script and transaction, one
\* on each of two nodes
EvalTwice ==
    /\ script_result = NoScriptResult
    /\ \E script \in UnendedScripts \cup PlainScripts(2) : \E b1, b2 \in Builds :
          script_result' =
              [kind |-> "twice", script |-> script, tx |-> EngineTx(TxBody, <<>>),
               build |-> b1, res |-> eval(script, EngineTx(TxBody, <<>>), b1),
               other_build |-> b2,
               other_res |-> eval(script, EngineTx(TxBody, <<>>), b2)]
    /\ UNCHANGED NotEngine

\* the scripts as bytes: opcodes with and without operands, an unknown op
MaxBytes == 4
UNKNOWN_OP == 255

ScriptBytes ==
    {Operand.PushTrue, Operand.PushPubKey, Operand.OpIf, Operand.OpCheckMultiSig,
     UNKNOWN_OP}

RECURSIVE ByteScripts(_)
ByteScripts(n) ==
    IF n = 0 THEN {<<>>}
    ELSE LET S == ByteScripts(n - 1)
         IN  S \cup {Append(q, b) : q \in S, b \in ScriptBytes}

\* the opcode fetches of one evaluation that no handler ends early
ConsumeOps ==
    /\ script_result = NoScriptResult
    /\ \E script \in ByteScripts(MaxBytes) :
          script_result' =
              [kind |-> "consume_op", script |-> script, tx |-> EngineTx(TxBody, <<>>),
               build |-> "release", res |-> NoScriptResult.res,
               fetches |-> consume_ops(script, 0)]
    /\ UNCHANGED NotEngine

\* one engine whose eval is called a second time after it returned Ok: pos
\* is set to 0, the stack is the one the first call left
EvalAgain ==
    /\ script_result = NoScriptResult
    /\ \E script \in PlainScripts(MaxPlainLen) \cup NestedScripts(1) : \E build \in Builds :
          LET tx == EngineTx(TxBody, <<>>)
              first == eval(script, tx, build)
          IN  /\ first.tag = "Ok"
              /\ script_result' =
                    [kind |-> "again", script |-> script, tx |-> tx, build |-> build,
                     res |-> first,
                     again |-> EvalLoop(script, tx, build, 0, first.stack, 0, FALSE)]
    /\ UNCHANGED NotEngine

EngineNext ==
    \/ EvalNested \/ EvalUnended \/ EvalCheckSig \/ EvalCheckMultiSig
    \/ EvalPlain \/ EvalTwice \/ ConsumeOps \/ EvalAgain

SpecEngine == Init /\ [][EngineNext]_vars

(***************************************************************************)
(* Claims about the replication peers (SpecRaft).                          *)
(***************************************************************************)

\* C11: election safety: for every term, at most one peer is, or ever was,
\* Leader in that term.
C11_ElectionSafety ==
    /\ \A a, b \in leaders : a[1] = b[1] => a[2] = b[2]
    /\ \A p \in Peers : role[p] = "Leader" => <<current_term[p], p>> \in leaders

\* two terms have had a leader each, and the earlier leader has not yet
\* learnt of the later term
C11_Witness ==
    \E p, q \in Peers :
        /\ p # q
        /\ role[p] = "Leader" /\ role[q] = "Leader"
        /\ <<1, p>> \in leaders /\ <<2, q>> \in leaders

\* the entries some node holds as committed, with their indexes
Committed ==
    UNION {{<<n, log_view[p][n]>> : n \in 1 .. Min(commit_index[p], Len(log_view[p]))} :
             p \in Peers}

\* C12, as the claim states it: once an entry is committed, every node whose
\* log has an entry at that index holds the same term and data there.
C12_EveryLogAgrees ==
    \A c \in Committed : \A q \in Peers :
        Len(log_view[q]) >= c[1] => log_view[q][c[1]] = c[2]

\* every node holds its committed prefix; two nodes agree on every index
\* both hold as committed; entries of the same index and term are the same
\* entry
CommittedAgree ==
    /\ \A p \in Peers : commit_index[p] <= Len(log_view[p])
    /\ \A c, d \in Committed : c[1] = d[1] => c[2] = d[2]
    /\ \A p, q \in Peers : \A n \in 1 .. Min(Len(log_view[p]), Len(log_view[q])) :
          log_view[p][n].term = log_view[q][n].term
              => log_view[p][n].data = log_view[q][n].data

\* a node that holds a committed entry keeps it
CommittedKept ==
    \A c \in Committed : \A q \in Peers :
        (Len(log_view[q]) >= c[1] /\ log_view[q][c[1]] = c[2])
            => (Len(log_view'[q]) >= c[1] /\ log_view'[q][c[1]] = c[2])

\* C12, amended: the nodes that hold an index as committed agree on its
\* entry, a node holding an entry of the same index and term as a committed
\* entry holds that entry, and no step of AppendEntries or LogSync handling
\* overwrites or removes a committed entry on a node that holds it.  A node
\* may hold a different, uncommitted entry at a committed index.
C12_CommittedAgreement == []CommittedAgree /\ [][CommittedKept]_vars

\* two nodes hold an entry of term 1 and an entry of term 2 as committed
C12_Witness ==
    \E p, q \in Peers :
        /\ p # q
        /\ commit_index[p] = 2 /\ commit_index[q] = 2
        /\ log_view[p][1].term = 1 /\ log_view[p][2].term = 2

\* the RequestVote requests a peer can receive
VoteRequests ==
    {RequestVoteReq(t, i, lt) : t \in 0 .. MaxTerm, i \in 0 .. MaxLogLen,
                                lt \in 0 .. MaxTerm}

\* a peer grants a request iff its term is higher than the peer's, its log
\* is at least as up-to-date and the peer has not voted in that term; a
\* granted vote is recorded in the term of the request
GrantRule ==
    \A q \in Peers : \A p \in Peers \ {q} : \A req \in VoteRequests :
        LET st == PeerState(q)
            h == HandleRequestVote(st, p, req)
        IN  /\ h.res.approved <=>
                  /\ req.term > st.current_term
                  /\ UpToDate(req.last_index, req.last_term, st)
                  /\ NotVotedIn(st, req.term)
            /\ h.res.approved => h.st.voted_for = p /\ h.st.current_term = req.term
            /\ (st.current_term = req.term /\ st.voted_for # NoPeer)
                  => ~h.res.approved

\* X has won term 1 with the votes of Y and Z
XWonTermOne ==
    /\ role["X"] = "Leader"
    /\ current_term = [p \in Peers |-> 1]
    /\ voted_for = [p \in Peers |-> "X"]

\* every peer rejects Y's RequestVote{term = 1, last_index = 0}
RejectedByAll ==
    \A q \in Peers :
        ~HandleRequestVote(PeerState(q), "Y", RequestVoteReq(1, 0, 0)).res.approved

\* a step records a vote of a peer only in a term higher than the peer's
OneVotePerTerm ==
    \A q \in Peers :
        (voted_for'[q] # voted_for[q] /\ voted_for'[q] # NoPeer)
            => current_term'[q] > current_term[q]

\* C13: a peer grants RequestVote{term, last_index, last_term} iff term is
\* higher than its current_term, the candidate's log is at least as
\* up-to-date as its own and it has not voted in that term, so a peer grants
\* at most one vote per term; once X has won term 1 with the others' votes,
\* every peer rejects Y's RequestVote of term 1.
C13_OneVotePerTerm ==
    /\ [](GrantRule /\ (XWonTermOne => RejectedByAll))
    /\ [][OneVotePerTerm]_vars

C13_Witness == XWonTermOne /\ RejectedByAll

\* the PreVote requests a peer can receive
PreVoteRequests ==
    {PreVoteReq(i, lt) : i \in 0 .. MaxLogLen, lt \in 0 .. MaxTerm}

\* a peer approves iff (last_term, last_index) of the candidate is at least
\* its own in lexicographic order, equality included
PreVoteRule ==
    \A q \in Peers : \A req \in PreVoteRequests :
        LET st == PeerState(q)
        IN  HandlePreVote(st, req).approved <=>
                \/ req.last_term > LastTerm(st)
                \/ req.last_term = LastTerm(st) /\ req.last_index > LastIndex(st)
                \/ req.last_term = LastTerm(st) /\ req.last_index = LastIndex(st)

\* a pre-vote exchange, which is the step that adds an approval to a round
\* in progress, changes no term, no vote and no role
PreVoteChangesNoTerm ==
    (\E p \in Peers : /\ pre_votes[p] # {}
                      /\ pre_votes'[p] # pre_votes[p]
                      /\ pre_votes[p] \subseteq pre_votes'[p])
        => UNCHANGED <<current_term, voted_for, role>>

\* a peer becomes Candidate, raising its term by one, only with the
\* approvals of a majority; any other rise of a term adopts a term that
\* another peer holds already
TermRisesAfterPreVote ==
    \A p \in Peers :
        /\ (role'[p] = "Candidate" /\ role[p] # "Candidate")
              => /\ Majority(pre_votes[p])
                 /\ pre_votes[p] \ {p} # {}
                 /\ current_term'[p] = current_term[p] + 1
        /\ current_term'[p] > current_term[p]
              => \/ role'[p] = "Candidate" /\ role[p] # "Candidate"
                 \/ \E q \in Peers \ {p} : current_term[q] >= current_term'[p]

\* C14: a peer approves PreVote iff the candidate's (last_term, last_index)
\* is lexicographically at least its own, equality approving; pre-votes
\* change no current_term or voted_for; a node raises its term and becomes
\* Candidate only after a majority approved its pre-vote, so a node that
\* reaches no majority never raises its term and forces nobody to step down.
C14_PreVote ==
    /\ []PreVoteRule
    /\ [][PreVoteChangesNoTerm /\ TermRisesAfterPreVote]_vars

\* one peer has been elected through two pre-vote rounds while another,
\* whose own pre-vote round got no approval, is still in term 0
C14_Witness ==
    \E p, q \in Peers :
        /\ role[p] = "Candidate" /\ current_term[p] = 2
        /\ pre_votes[q] = {q} /\ current_term[q] = 0 /\ role[q] = "Follower"

\* the requests carrying a term that p, from its present state, sends to q
VoteRequestsOf(p) ==
    {RequestVoteReq(current_term[p], LastIndex(PeerState(p)), LastTerm(PeerState(p)))}

AppendRequestsOf(p, q) ==
    LET st == PeerState(p)
        prev_index == st.next_index[q] - 1
    IN  {AppendEntriesReq(st.current_term, prev_index,
                          IF prev_index = 0 THEN 0 ELSE st.log[prev_index].term,
                          st.commit_index,
                          SubSeq(st.log, prev_index + 1, prev_index + n)) :
           n \in {m \in 0 .. BatchSize : prev_index + m <= Len(st.log)}}

\* the responses carrying a term that q, from its present state, returns
VoteResponsesOf(q) == {RequestVoteRes(current_term[q], a) : a \in BOOLEAN}

AppendResponsesOf(q) ==
    {AppendEntriesRes(current_term[q], a, i) : a \in BOOLEAN, i \in 0 .. Len(log_view[q])}

\* st2 is st stepped down to the term: the term adopted, Follower, and no
\* vote but the one the message itself is granted
SteppedDown(st2, term, grantee) ==
    /\ st2.current_term = term
    /\ st2.role = "Follower"
    /\ st2.voted_for \in {NoPeer, grantee}

\* what a message of a strictly higher or strictly lower term does to its
\* receiver q, for every message a peer p can send from its present state
TermRule ==
    \A q \in Peers : \A p \in Peers \ {q} :
        LET st == PeerState(q)
        IN  /\ \A req \in VoteRequestsOf(p) :
                  LET h == HandleRequestVote(st, p, req)
                  IN  /\ req.term > st.current_term
                          => /\ SteppedDown(h.st, req.term, p)
                             /\ h.st.voted_for = p <=> h.res.approved
                      /\ req.term < st.current_term
                          => /\ h.st = st
                             /\ h.res = RequestVoteRes(st.current_term, FALSE)
            /\ \A req \in AppendRequestsOf(p, q) :
                  LET h == HandleAppendEntries(st, p, req)
                  IN  /\ req.term > st.current_term
                          => SteppedDown(h.st, req.term, NoPeer)
                      /\ req.term < st.current_term
                          => /\ h.st = st
                             /\ h.res.current_term = st.current_term
                             /\ ~h.res.success
            /\ \A res \in VoteResponsesOf(p) :
                  LET st2 == HandleRequestVoteRes(st, p, res)
                  IN  /\ res.current_term > st.current_term
                          => SteppedDown(st2, res.current_term, NoPeer)
                      /\ res.current_term < st.current_term => st2 = st
            /\ \A res \in AppendResponsesOf(p) :
                  LET st2 == HandleAppendEntriesRes(st, q, p, res)
                  IN  /\ res.current_term > st.current_term
                          => SteppedDown(st2, res.current_term, NoPeer)
                      /\ res.current_term < st.current_term => st2 = st

TermNeverDecreases == \A p \in Peers : current_term'[p] >= current_term[p]

\* C15: no step decreases a peer's current_term; a message of a strictly
\* higher term makes its receiver adopt the term, become Follower and clear
\* voted_for before it is handled; a message of a strictly lower term is
\* rejected with the receiver's current_term and changes nothing.
C15_Terms == []TermRule /\ [][TermNeverDecreases]_vars

\* the Leader of term 1, which did not vote in term 2, has met a message of
\* term 2 and stepped down
C15_Witness ==
    \E p, q \in Peers :
        /\ <<1, p>> \in leaders /\ <<2, q>> \in leaders
        /\ role[p] = "Follower" /\ current_term[p] = 2 /\ voted_for[p] = NoPeer
        /\ role[q] = "Leader"

\* the peers on which index n of leader p is replicated, per match_index
ReplicatedOn(p, n) == {p} \cup {q \in Peers \ {p} : match_index[p][q] >= n}

\* what match_index records is there: a peer that has not met a later term
\* holds the leader's entries up to its match_index
MatchIsReplicated ==
    \A p \in Peers : \A q \in Peers \ {p} :
        (role[p] = "Leader" /\ current_term[q] = current_term[p])
            => /\ match_index[p][q] <= Len(log_view[q])
               /\ match_index[p][q] <= Len(log_view[p])
               /\ SubSeq(log_view[q], 1, match_index[p][q])
                     = SubSeq(log_view[p], 1, match_index[p][q])

\* a leader moves its commit_index only to an index replicated on a
\* majority whose entry is of its own term
LeaderCommitRule ==
    \A p \in Peers :
        (role[p] = "Leader" /\ role'[p] = "Leader" /\ commit_index'[p] # commit_index[p])
            => /\ commit_index'[p] <= Len(log_view'[p])
               /\ log_view'[p][commit_index'[p]].term = current_term'[p]
               /\ Majority({p} \cup {q \in Peers \ {p} :
                                       match_index'[p][q] >= commit_index'[p]})

CommitNeverDecreases == \A p \in Peers : commit_index'[p] >= commit_index[p]

\* C16: a leader advances commit_index only to an index that is replicated
\* on a majority, counting itself, and whose entry has the leader's
\* current_term; it does not commit an entry of an earlier term by counting
\* replicas; no node's commit_index decreases.
C16_CommitRule ==
    /\ []MatchIsReplicated
    /\ [][LeaderCommitRule /\ CommitNeverDecreases]_vars

\* the Leader of term 2 holds an entry of term 1 that a majority holds, and
\* has not committed it
C16_Witness ==
    \E p \in Peers :
        /\ role[p] = "Leader" /\ current_term[p] = 2
        /\ Len(log_view[p]) >= 1 /\ log_view[p][1].term = 1
        /\ Majority(ReplicatedOn(p, 1))
        /\ commit_index[p] = 0

(***************************************************************************)
(* Claims about the script engine (SpecEngine).                            *)
(***************************************************************************)

\* the index of the OpEndIf that closes the branch scanned from pos at
\* nesting depth 0, and of the OpElse of that branch; 0 when there is none
RECURSIVE EndOf(_, _, _)
EndOf(s, pos, depth) ==
    IF pos > Len(s) THEN 0
    ELSE IF s[pos] = OpIf THEN EndOf(s, pos + 1, depth + 1)
    ELSE IF s[pos] = OpEndIf
         THEN IF depth = 0 THEN pos ELSE EndOf(s, pos + 1, depth - 1)
    ELSE EndOf(s, pos + 1, depth)

RECURSIVE ElseOf(_, _, _)
ElseOf(s, pos, depth) ==
    IF pos > Len(s) THEN 0
    ELSE IF s[pos] = OpIf THEN ElseOf(s, pos + 1, depth + 1)
    ELSE IF s[pos] = OpEndIf
         THEN IF depth = 0 THEN 0 ELSE ElseOf(s, pos + 1, depth - 1)
    ELSE IF s[pos] = OpElse /\ depth = 0 THEN pos
    ELSE ElseOf(s, pos + 1, depth)

\* structured evaluation of a properly nested script of pushes, OpNot and
\* branches: an OpIf pops b and runs the one branch b selects
RECURSIVE Structured(_, _)
Structured(s, stack) ==
    IF s = <<>> THEN [ok |-> TRUE, stack |-> stack]
    ELSE IF s[1] = OpIf
    THEN LET b == pop_bool(stack)
             e == EndOf(s, 2, 0)
             l == ElseOf(s, 2, 0)
             taken == IF b.value THEN SubSeq(s, 2, (IF l = 0 THEN e ELSE l) - 1)
                      ELSE IF l = 0 THEN <<>> ELSE SubSeq(s, l + 1, e - 1)
         IN  IF ~b.ok THEN b
             ELSE LET r == Structured(taken, b.stack)
                  IN  IF ~r.ok THEN r
                      ELSE Structured(SubSeq(s, e + 1, Len(s)), r.stack)
    ELSE IF s[1] = OpNot
    THEN LET b == pop_bool(stack)
         IN  IF ~b.ok THEN b
             ELSE Structured(Tail(s), stack_push(b.stack, BoolFrame(~b.value)))
    ELSE Structured(Tail(s), stack_push(stack, s[1]))

StructuredOutcome(s) ==
    LET r == Structured(s, <<>>)
        b == IF r.ok THEN pop_bool(r.stack) ELSE r
    IN  IF b.ok THEN <<"Ok", b.value, "">> ELSE <<"Err", FALSE, b.err>>

Outcome(res) == <<res.tag, res.value, res.err>>

\* C17: in a properly nested script every executed OpIf pops a boolean and
\* exactly one of its branches runs; the ops of the other branch, nested
\* OpIf included, have no effect.
C17_ExactlyOneBranch ==
    script_result.kind = "nested"
        => Outcome(script_result.res) = StructuredOutcome(script_result.script)

\* the index of the last OpIf of the script
LastIf(s) == CHOOSE i \in 1 .. Len(s) : s[i] = OpIf /\ \A j \in i + 1 .. Len(s) : s[j] # OpIf

\* C18: eval of a script in which an OpIf has no matching OpEndIf before the
\* end of the script fails with UnexpectedEOF, whatever the condition and
\* the ops before it (here: unless an op up to that OpIf has failed first).
C18_UnendedIfFails ==
    script_result.kind = "unended"
        => /\ script_result.res.tag = "Err"
           /\ \/ script_result.res.err = "UnexpectedEOF"
              \/ script_result.res.pos <= LastIf(script_result.script)

\* the pairs of the transaction whose key is k, in their order
PairsOf(tx, k) ==
    LET IsOfKey(p) == p.pub_key = k
    IN  SelectSeq(tx.signature_pairs, IsOfKey)

\* the pair is the key's signature over the encoding without signatures
ValidPair(pair, tx) == pair = SigPair(pair.pub_key, encode(tx))

CheckSigScript(k) == <<PushPubKey(k), OpCheckSig>>

\* C19: OpCheckSig pops one public key and pushes true iff the first pair
\* whose key equals it is a valid signature over the transaction's encoding
\* without signatures; it pushes false when no pair has the key or when that
\* first pair is invalid, later pairs of the key not being tried.  Appending
\* a signature changes neither the encoding that is signed nor the result
\* for a key that has a pair.
C19_CheckSigFirstPair ==
    script_result.kind = "checksig" =>
        LET tx == script_result.tx
            k == script_result.script[1].key
            mine == PairsOf(tx, k)
        IN  /\ script_result.script = CheckSigScript(k)
            /\ Outcome(script_result.res)
                  = <<"Ok", mine # <<>> /\ ValidPair(mine[1], tx), "">>
            /\ \A k2 \in Keys :
                  LET more == append_sign(tx, k2)
                  IN  /\ encode(more) = encode(tx)
                      /\ encode_with_sigs(more) # encode_with_sigs(tx)
                      /\ \A i \in 1 .. Len(tx.signature_pairs) :
                            /\ more.signature_pairs[i] = tx.signature_pairs[i]
                            /\ ValidPair(tx.signature_pairs[i], tx)
                                  => ValidPair(more.signature_pairs[i], more)
                      /\ ValidPair(more.signature_pairs[Len(more.signature_pairs)], more)
                      /\ mine # <<>>
                            => eval(CheckSigScript(k), more, script_result.build)
                                  = script_result.res

\* the first pair of the key is forged and a later pair of the key is
\* valid: the result is false
C19_Witness ==
    /\ script_result.kind = "checksig"
    /\ LET tx == script_result.tx
           mine == PairsOf(tx, script_result.script[1].key)
       IN  /\ Len(mine) = 2
           /\ ~ValidPair(mine[1], tx)
           /\ ValidPair(mine[2], tx)
    /\ Outcome(script_result.res) = <<"Ok", FALSE, "">>

\* the keys OpCheckMultiSig lists: the pushed keys of the script
ListedKeys(script) == [i \in 1 .. Len(script) - 1 |-> script[i].key]

\* the number of listed keys whose first pair is a valid signature
ValidCount(tx, keys) ==
    Cardinality({i \in 1 .. Len(keys) :
                   PairsOf(tx, keys[i]) # <<>> /\ ValidPair(PairsOf(tx, keys[i])[1], tx)})

\* a listed key whose first pair is not a valid signature
InvalidListed(tx, keys) ==
    \E i \in 1 .. Len(keys) :
        PairsOf(tx, keys[i]) # <<>> /\ ~ValidPair(PairsOf(tx, keys[i])[1], tx)

\* C20, as the claim states it: OpCheckMultiSig(t, n) pops n keys, matches
\* each against at most one pair, counts the keys with a valid signature
\* and pushes true iff the count is at least t; t = 0 gives true and t > n
\* gives false; other pairs and keys act only through the count.
C20_CountDecides ==
    script_result.kind = "checkmultisig" =>
        LET keys == ListedKeys(script_result.script)
            t == script_result.script[Len(script_result.script)].threshold
        IN  Outcome(script_result.res)
                = <<"Ok", t = 0 \/ (t <= Len(keys)
                                      /\ ValidCount(script_result.tx, keys) >= t), "">>

\* C20, amended: the result is true iff t = 0, or t <= n, no listed key has
\* a first pair that is invalid, and the count of listed keys whose first
\* pair is valid is at least t.
C20_CountAndNoInvalid ==
    script_result.kind = "checkmultisig" =>
        LET keys == ListedKeys(script_result.script)
            t == script_result.script[Len(script_result.script)].threshold
            tx == script_result.tx
        IN  /\ script_result.script = MultiSigScript(keys, t)
            /\ Outcome(script_result.res)
                  = <<"Ok", t = 0 \/ (/\ t <= Len(keys)
                                      /\ ~InvalidListed(tx, keys)
                                      /\ ValidCount(tx, keys) >= t), "">>

\* the listed key has a valid pair after the forged pair of an unlisted
\* key: the forged pair is passed over and the result is true
C20_Witness ==
    /\ script_result.kind = "checkmultisig"
    /\ script_result.script = MultiSigScript(<<"K0">>, 1)
    /\ script_result.tx.signature_pairs
          = <<ForgedSigPair("K1"), SigPair("K0", encode(script_result.tx))>>
    /\ Outcome(script_result.res) = <<"Ok", TRUE, "">>

\* a script of push frames only: the operand stack at its end is the script
PushOnly(script) ==
    \A i \in DOMAIN script : script[i].op \in {"True", "False", "PubKey"}

IsBoolFrame(frame) == frame.op \in {"True", "False"}

\* the position of the first OpReturn of a script, 0 when there is none
FirstReturn(script) ==
    LET is == {i \in DOMAIN script : script[i] = OpReturn}
    IN  IF is = {} THEN 0 ELSE CHOOSE i \in is : \A j \in is : i <= j

\* C21: eval succeeds at the end of a script only if exactly one item, a
\* boolean, is on the operand stack; it returns that boolean and leaves the
\* stack empty, and any other final stack is an error.  An executed OpReturn
\* halts evaluation at once, whatever follows it, and the result is the top
\* of the stack.
C21_ExactlyOneBoolean ==
    script_result.kind = "plain" =>
        LET script == script_result.script
            res == script_result.res
            ret == FirstReturn(script)
            before == SubSeq(script, 1, ret - 1)
        IN  /\ res.tag = "Ok" => res.stack = <<>>
            /\ PushOnly(script) =>
                  IF Len(script) = 1 /\ IsBoolFrame(script[1])
                  THEN Outcome(res) = <<"Ok", script[1] = PushTrue, "">>
                  ELSE res.tag = "Err"
            /\ (ret > 0 /\ PushOnly(before) /\ before # <<>>
                   /\ IsBoolFrame(before[Len(before)]))
                  => /\ Outcome(res) = <<"Ok", before[Len(before)] = PushTrue, "">>
                     /\ res.pos = ret

\* C22: two independent evaluations of the same script on the same
\* transaction, by two freshly made engines on the same or on different
\* nodes, return the same result or error and leave the same stack.
C22_Deterministic ==
    script_result.kind = "twice" => script_result.res = script_result.other_res

(***************************************************************************)
(* Claims about the fee curves (SpecFee, SpecAddrFee).                     *)
(***************************************************************************)

\* the network fee get_network_fee returned at chain height h
FeeAt(h) == IF h = chain_height THEN get_network_fee ELSE fee_log[h + 1]

\* C23: the network fee changes only every five blocks: at every height h
\* get_network_fee returns what it returned at height h - (h mod 5) of the
\* same chain, so that inserting a block that does not bring the height to
\* a multiple of 5 leaves the network fee unchanged, whatever the block
\* contains.
C23_FeeEveryFiveBlocks ==
    store # <<>> =>
        /\ Len(fee_log) = chain_height
        /\ \A h \in 0 .. chain_height : FeeAt(h) = FeeAt(h - (h % 5))
        /\ (chain_height % 5 # 0) => get_network_fee = fee_log[chain_height]

\* blocks with receipts were inserted above height 5 and the fee is still
\* the fee of height 5, which is not the fee of height 10
C23_Witness ==
    /\ chain_height = 10
    /\ \A h \in 1 .. 5 : store[h + 1].receipts = <<>>
    /\ \A h \in 6 .. 10 : store[h + 1].receipts # <<>>
    /\ \A h \in 5 .. 9 : fee_log[h + 1] = Some(GRAEL_FEE_MIN)
    /\ get_network_fee # Some(GRAEL_FEE_MIN)

\* the heights get_network_fee counts the receipts of
FeeWindow ==
    LET max_height == chain_height - (chain_height % 5)
    IN  {h \in 0 .. max_height : h >= max_height - NETWORK_FEE_AVG_WINDOW}

WindowReceipts ==
    SumOver([h \in FeeWindow |-> Len(store[h + 1].receipts)], FeeWindow)

\* GRAEL_FEE_MIN x GRAEL_FEE_NET_MULT^count
NetworkFeeOf(count) ==
    LET mult == checked_pow(GRAEL_FEE_NET_MULT, count)
    IN  IF IsSome(mult) THEN checked_mul(GRAEL_FEE_MIN, Unwrap(mult)) ELSE None

\* C24 as stated: get_network_fee returns GRAEL_FEE_MIN x
\* GRAEL_FEE_NET_MULT^count with count = 1 + (the receipts of the blocks at
\* heights [max_height - NETWORK_FEE_AVG_WINDOW, max_height]) /
\* NETWORK_FEE_AVG_WINDOW, max_height = height - height mod 5.
C24_CountAsStated ==
    store # <<>> =>
        get_network_fee
            = NetworkFeeOf(1 + (WindowReceipts \div NETWORK_FEE_AVG_WINDOW))

\* C24 as amended: count = (1 + the receipts of the blocks of the window) /
\* NETWORK_FEE_AVG_WINDOW, so that a chain with fewer than
\* NETWORK_FEE_AVG_WINDOW - 1 receipts in the window pays GRAEL_FEE_MIN.
C24_CountAmended ==
    store # <<>> =>
        /\ get_network_fee
              = NetworkFeeOf((1 + WindowReceipts) \div NETWORK_FEE_AVG_WINDOW)
        /\ WindowReceipts < NETWORK_FEE_AVG_WINDOW - 1
              => get_network_fee = Some(GRAEL_FEE_MIN)

\* the window starts above genesis, leaves out a block with receipts, and
\* holds enough receipts for the fee to be above GRAEL_FEE_MIN
C24_Witness ==
    /\ chain_height >= NETWORK_FEE_AVG_WINDOW + 5
    /\ 0 \notin FeeWindow
    /\ store[2].receipts # <<>>
    /\ WindowReceipts >= 2 * NETWORK_FEE_AVG_WINDOW - 1
    /\ IsSome(get_network_fee) /\ Unwrap(get_network_fee) > GRAEL_FEE_MIN

\* the transfers of the address among the receipts
MatchesIn(receipts, addr) ==
    Cardinality({i \in DOMAIN receipts : IsTransferFrom(receipts[i], addr)})

\* the heights the scan of get_address_fee reaches: those with no
\* FEE_RESET_WINDOW consecutive blocks without a transfer of the address
\* above them
ScannedHeights(addr) ==
    {h \in 0 .. chain_height :
        ~\E k \in h + 1 .. chain_height :
            /\ k + FEE_RESET_WINDOW - 1 <= chain_height
            /\ \A j \in k .. k + FEE_RESET_WINDOW - 1 :
                  MatchesIn(store[j + 1].receipts, addr) = 0}

\* GRAEL_FEE_MIN x GRAEL_FEE_MULT^count
AddressFeeOf(count) ==
    LET mult == checked_pow(GRAEL_FEE_MULT, count)
    IN  IF IsSome(mult) THEN checked_mul(GRAEL_FEE_MIN, Unwrap(mult)) ELSE None

\* C25: get_address_fee(addr, additional_receipts) returns GRAEL_FEE_MIN x
\* GRAEL_FEE_MULT^count, count being 1 + the transfers from addr among the
\* additional receipts and among the blocks scanned from the head toward
\* genesis, the scan ending at genesis or once FEE_RESET_WINDOW consecutive
\* blocks without such a transfer have been scanned; a fresh address on a
\* chain of the genesis block only pays GRAEL_FEE_MIN x GRAEL_FEE_MULT.
C25_AddressFee ==
    rpc_result.kind = "address_fee" =>
        LET addr == rpc_result.addr
            scanned == ScannedHeights(addr)
            count == 1 + MatchesIn(rpc_result.additional_receipts, addr)
                       + SumOver([h \in scanned |->
                                    MatchesIn(store[h + 1].receipts, addr)], scanned)
        IN  /\ rpc_result.count = count
            /\ rpc_result.fee = AddressFeeOf(count)
            /\ (chain_height = 0 /\ rpc_result.additional_receipts = <<>>)
                  => rpc_result.fee = checked_mul(GRAEL_FEE_MIN, GRAEL_FEE_MULT)

\* a transfer of the address lies below FEE_RESET_WINDOW blocks without
\* one and is not counted, and the fee is back at its least value
C25_Witness ==
    /\ rpc_result.kind = "address_fee"
    /\ rpc_result.addr = "A1"
    /\ rpc_result.additional_receipts = <<>>
    /\ \E h \in 1 .. chain_height :
          /\ MatchesIn(store[h + 1].receipts, "A1") > 0
          /\ h \notin ScannedHeights("A1")
    /\ rpc_result.count = 1
    /\ rpc_result.fee = checked_mul(GRAEL_FEE_MIN, GRAEL_FEE_MULT)

\* two transfers of the address are counted, the later one having restarted
\* the window for the earlier one
C25_WitnessRestart ==
    /\ rpc_result.kind = "address_fee"
    /\ rpc_result.addr = "A1"
    /\ rpc_result.count = 3
    /\ \E h \in 1 .. chain_height :
          /\ MatchesIn(store[h + 1].receipts, "A1") > 0
          /\ chain_height - h >= FEE_RESET_WINDOW

(***************************************************************************)
(* Claims about get_filtered_block, the minter and the client connections. *)
(***************************************************************************)

\* the script hashes a receipt is matched by
Touched(receipt) ==
    LET tx == receipt.tx
    IN  CASE tx.type = "Owner" -> {tx.wallet, ScriptHash(tx.script)}
          [] tx.type = "Mint" -> {tx.to, ScriptHash(tx.script)}
          [] tx.type = "Transfer" ->
                {tx.from} \cup {receipt.log[i].to : i \in DOMAIN receipt.log}
          [] OTHER -> {}

TouchedBy(block) == UNION {Touched(block.receipts[i]) : i \in DOMAIN block.receipts}

\* C26: for a height holding a block, get_filtered_block returns the full
\* block iff the filter is not empty and some receipt of the block matches
\* it (a transfer's from, an effect-log Transfer's to, a mint's to or script
\* hash, an owner transaction's wallet or script hash), and the header with
\* the signer otherwise; the empty filter always gives the header; block
\* rewards paid to the owner's wallet do not match; a height without a block
\* gives None.
C26_FilteredBlock ==
    rpc_result.kind = "filtered" =>
        LET h == rpc_result.height
            filter == rpc_result.filter
            block == store[h + 1]
        IN  IF h > chain_height THEN rpc_result.res = None
            ELSE IF filter \cap TouchedBy(block) # {}
                 THEN rpc_result.res = Some(FilteredBlock_Block(block))
            ELSE rpc_result.res
                    = Some(FilteredBlock_Header(Header(block), Unwrap(block.signer)))

\* the filter holds the receiver of a transfer's effect log and nothing
\* else the block touches: the full block is returned
C26_Witness ==
    /\ rpc_result.kind = "filtered"
    /\ rpc_result.filter = {"A2"}
    /\ rpc_result.height = chain_height
    /\ store[chain_height + 1].receipts = <<PayA2>>
    /\ rpc_result.res = Some(FilteredBlock_Block(store[chain_height + 1]))

\* the filter holds the owner's wallet, the block pays a reward to it and
\* has no receipt: the header is returned
C26_WitnessReward ==
    /\ rpc_result.kind = "filtered"
    /\ rpc_result.height = chain_height
    /\ store[chain_height + 1].rewards > 0
    /\ store[chain_height + 1].receipts = <<>>
    /\ get_owner.wallet \in rpc_result.filter
    /\ IsSome(rpc_result.res) /\ Unwrap(rpc_result.res).tag = "Header"

(***************************************************************************)
(* C27.  Block production.                                                 *)
(***************************************************************************)
BlockTxs(h) == [i \in DOMAIN store[h + 1].receipts |-> store[h + 1].receipts[i].tx]

\* the transactions of the blocks above the genesis block, in chain order
RECURSIVE ChainTxs(_)
ChainTxs(h) == IF h = 0 THEN <<>> ELSE ChainTxs(h - 1) \o BlockTxs(h)

Produced == minter_result.op \in {"tick", "ForceProduceBlock"}

\* what produce took from the queue: the block's transactions but the last
Drained == SubSeq(minter_result.transactions, 1, Len(minter_result.transactions) - 1)

\* C27: every block production (tick or ForceProduceBlock) leaves the
\* pending queue empty and inserts one child of the chain head, signed with
\* minter_key, holding the queued transactions in the order PushTx accepted
\* them followed by one zero-fee reward entry to wallet_addr; so every
\* transaction PushTx accepted is in exactly one block or still queued,
\* in the order of acceptance: none is lost, none is duplicated.
C27_ProductionDrainsQueue ==
    /\ Produced =>
          /\ txs = <<>>
          /\ minter_result.transactions[Len(minter_result.transactions)]
                = RewardTx(wallet_addr, 0)
          /\ \A i \in DOMAIN Drained : Drained[i].type # "Reward"
          /\ chain_height >= 1
          /\ minter_result.head = store[chain_height]
          /\ LastBlock = Child(minter_result.head, TxReceipts(Drained), 0, minter_key)
    /\ store # <<>> => accepted = ChainTxs(chain_height) \o txs

(***************************************************************************)
(* C28.  PushTx.                                                           *)
(***************************************************************************)
Pushed == minter_result.op = "PushTx"

\* C28: PushTx(tx) validates tx against the chain state together with the
\* queued transactions: on success the queue is the old queue with tx
\* appended and Ok is returned, on failure the queue is unchanged and
\* TxValidateError carries the cause; so every queued transaction is covered
\* given the ones queued before it (a transfer pays the fee raised by the
\* queued transfers of its address and is covered by the balance they leave).
C28_PushTxValidates ==
    /\ Pushed =>
          /\ minter_result.res.tag \in {"Ok", "Err"}
          /\ IsOk(minter_result.res) =>
                /\ txs = Append(minter_result.queue, minter_result.tx)
                /\ ReceiptCovered(TxReceipts(txs), Len(txs))
          /\ IsErr(minter_result.res) =>
                /\ txs = minter_result.queue
                /\ minter_result.res.err.kind = "TxValidateError"
                /\ minter_result.res.err.cause
                      = execute_tx(minter_result.tx, TxReceipts(txs)).err
    /\ store # <<>> => \A i \in DOMAIN txs : ReceiptCovered(TxReceipts(txs), i)

\* a second spend, valid against the chain state alone, is rejected because
\* the balance left by the queued transfer of the same address cannot cover it
C28_Witness ==
    /\ Pushed
    /\ minter_result.tx.type = "Transfer"
    /\ IsOk(execute_tx(minter_result.tx, <<>>))
    /\ \E i \in DOMAIN txs :
          txs[i].type = "Transfer" /\ txs[i].from = minter_result.tx.from
    /\ minter_result.res
          = Err([kind |-> "TxValidateError", cause |-> TxErr("InvalidAmount")])
    /\ txs = minter_result.queue

\* a transaction is appended behind a queued one
C28_WitnessAppend ==
    /\ Pushed
    /\ IsOk(minter_result.res)
    /\ Len(minter_result.queue) = 1
    /\ minter_result.tx.type = "Transfer"
    /\ minter_result.queue[1].type = "Transfer"
    /\ minter_result.queue[1].from = minter_result.tx.from

(***************************************************************************)
(* C29.  Response ids and framing errors.                                  *)
(***************************************************************************)
Handled == rpc_result.kind = "rpc"

\* p is s cut short
ProperPrefix(p, s) == Len(p) < Len(s) /\ SubSeq(s, 1, Len(p)) = p

\* C29: every response carries the id of the request it answers, Pong(n)
\* answering Ping(n) with the same n; a request followed by trailing bytes
\* is answered with Error(BytesRemaining) and the request's id; a message
\* cut short is answered with Error(Io) and the id u32::MAX.
C29_ResponseIds ==
    Handled =>
        \A m \in RpcMsgs :
            LET enc == serialize(m)
                buf == rpc_result.buf
                out == rpc_result.out
            IN  /\ buf = enc =>
                      /\ out # <<>>
                      /\ \A i \in DOMAIN out :
                            /\ out[i].id = m.id
                            /\ out[i].body.tag \in {"Pong", "Response", "Error"}
                      /\ m.body.tag = "Ping" => out = <<Msg(m.id, Body_Pong(m.body.n))>>
                      /\ m.body.tag = "Request" => out[1].body.tag # "Pong"
                /\ ProperPrefix(enc, buf) =>
                      out = <<Msg(m.id, Body_Error("BytesRemaining"))>>
                /\ ProperPrefix(buf, enc) =>
                      out = <<Msg(U32_MAX, Body_Error("Io"))>>

\* GetBlock(0) with id 7 followed by a stray byte
C29_Witness ==
    /\ Handled
    /\ rpc_result.buf
          = Append(serialize(Msg(7, Body_Request([tag |-> "GetBlock", height |-> 0]))), 0)
    /\ rpc_result.out = <<Msg(7, Body_Error("BytesRemaining"))>>

\* GetBlock(0) with id 7 cut short by its last field
C29_WitnessTruncated ==
    /\ Handled
    /\ rpc_result.buf = <<7, "Request", "GetBlock">>
    /\ rpc_result.out = <<Msg(U32_MAX, Body_Error("Io"))>>

\* a block range answered by several responses, each with the request's id
C29_WitnessRange ==
    /\ Handled
    /\ rpc_result.buf = <<7, "Request", "GetBlockRange", 0, 1>>
    /\ Len(rpc_result.out) = 3
    /\ \A i \in 1 .. 3 : rpc_result.out[i].id = 7

(***************************************************************************)
(* C30.  The block filter of a connection.                                 *)
(***************************************************************************)
\* the request of the last handled message, when it was well formed;
\* rpc_result.height is the chain height the message was handled at
LastRequest ==
    CHOOSE m \in RpcMsgs : serialize(m) = rpc_result.buf /\ m.body.tag = "Request"

IsRequest ==
    /\ Handled
    /\ \E m \in RpcMsgs : serialize(m) = rpc_result.buf /\ m.body.tag = "Request"

ResponseTo(m, res) == <<Msg(m.id, Body_Response(res))>>

\* the filter each connection has after the handled messages so far
ExpectedFilters ==
    IF ~Handled THEN [c \in Conns |-> None]
    ELSE IF ~IsRequest THEN rpc_result.filters
    ELSE LET req == LastRequest.body.req
         IN  CASE req.tag = "SetBlockFilter" ->
                    [rpc_result.filters EXCEPT
                        ![rpc_result.conn] = Some(FilterSet(req.filter))]
               [] req.tag = "ClearBlockFilter" ->
                    [rpc_result.filters EXCEPT ![rpc_result.conn] = None]
               [] OTHER -> rpc_result.filters

\* the block GetBlock answers with under the filter of the connection
ExpectedBlock(block, filter) ==
    IF ~IsSome(filter) THEN FilteredBlock_Block(block)
    ELSE IF Unwrap(filter) \cap TouchedBy(block) # {} THEN FilteredBlock_Block(block)
    ELSE FilteredBlock_Header(Header(block), Unwrap(block.signer))

\* C30: the filter of a connection starts unset; while unset GetBlock(h)
\* answers the full block; SetBlockFilter(f) answers SetBlockFilter and
\* replaces the connection's filter, after which GetBlock is filtered by f
\* (the empty filter giving Header answers only); ClearBlockFilter answers
\* ClearBlockFilter and unsets it; GetFullBlock(h) answers the full block
\* whatever the filter; a height above the chain height is answered with
\* Error(InvalidHeight); no request changes another connection's filter.
C30_ConnectionFilter ==
    /\ conn_filter = ExpectedFilters
    /\ IsRequest =>
          LET m == LastRequest
              req == m.body.req
              filter == rpc_result.filters[rpc_result.conn]
              out == rpc_result.out
          IN  CASE req.tag = "SetBlockFilter" ->
                     out = ResponseTo(m, [tag |-> "SetBlockFilter"])
                [] req.tag = "ClearBlockFilter" ->
                     out = ResponseTo(m, [tag |-> "ClearBlockFilter"])
                [] req.tag = "GetBlock" ->
                     IF req.height > rpc_result.height
                     THEN out = <<Msg(m.id, Body_Error("InvalidHeight"))>>
                     ELSE /\ out = ResponseTo(m, [tag |-> "GetBlock",
                                 block |-> ExpectedBlock(store[req.height + 1], filter)])
                          /\ filter = Some({}) => out[1].body.res.block.tag = "Header"
                [] req.tag = "GetFullBlock" ->
                     IF req.height > rpc_result.height
                     THEN out = <<Msg(m.id, Body_Error("InvalidHeight"))>>
                     ELSE out = ResponseTo(m, [tag |-> "GetFullBlock",
                                               block |-> store[req.height + 1]])
                [] OTHER -> TRUE

\* a connection whose filter does not match block 1 is answered with its
\* header while the other connection has no filter
C30_Witness ==
    /\ IsRequest
    /\ LastRequest.body.req = [tag |-> "GetBlock", height |-> 1]
    /\ rpc_result.height = 1
    /\ TouchedBy(store[2]) # {}
    /\ IsSome(rpc_result.filters[rpc_result.conn])
    /\ Unwrap(rpc_result.filters[rpc_result.conn]) # {}
    /\ \E c \in Conns : conn_filter[c] = None
    /\ rpc_result.out[1].body.res.block.tag = "Header"

\* GetFullBlock answers the full block to a connection with the empty filter
C30_WitnessFull ==
    /\ IsRequest
    /\ LastRequest.body.req = [tag |-> "GetFullBlock", height |-> 1]
    /\ rpc_result.height = 1
    /\ rpc_result.filters[rpc_result.conn] = Some({})
    /\ rpc_result.out[1].body.res.block = store[2]

\* a filter is cleared while the other connection keeps its own
C30_WitnessClear ==
    /\ IsRequest
    /\ LastRequest.body.req.tag = "ClearBlockFilter"
    /\ IsSome(rpc_result.filters[rpc_result.conn])
    /\ conn_filter[rpc_result.conn] = None
    /\ \E c \in Conns : IsSome(conn_filter[c])

(***************************************************************************)
(* C31.  GetBlockRange.                                                    *)
(***************************************************************************)
IsRange == IsRequest /\ LastRequest.body.req.tag = "GetBlockRange"

\* the range lies in the chain the request was handled on
RangeInChain ==
    /\ LastRequest.body.req.lo <= LastRequest.body.req.hi
    /\ LastRequest.body.req.hi <= rpc_result.height

\* C31: GetBlockRange(lo, hi) has no direct reply; it streams one GetBlock
\* response for each height lo..hi in increasing order, each with the id of
\* the request and filtered by the filter of the connection (full blocks
\* when unset, headers for the empty filter), then one GetBlockRange
\* response with the same id, and nothing after it.
C31_BlockRangeStream ==
    (IsRange /\ RangeInChain) =>
        LET m == LastRequest
            lo == m.body.req.lo
            hi == m.body.req.hi
            filter == rpc_result.filters[rpc_result.conn]
            out == rpc_result.out
        IN  /\ rpc_result.streamed
            /\ Len(out) = (hi - lo + 1) + 1
            /\ \A k \in 0 .. (hi - lo) :
                  /\ out[k + 1] = Msg(m.id, Body_Response([tag |-> "GetBlock",
                                     block |-> ExpectedBlock(store[lo + k + 1], filter)]))
                  /\ filter = Some({}) => out[k + 1].body.res.block.tag = "Header"
                  /\ filter = None => out[k + 1].body.res.block.tag = "Block"
            /\ out[Len(out)] = Msg(m.id, Body_Response([tag |-> "GetBlockRange"]))

\* a range of two blocks streamed to a connection whose filter matches
\* the second block only
C31_Witness ==
    /\ IsRange /\ RangeInChain
    /\ LastRequest.body.req.lo = 0 /\ LastRequest.body.req.hi = 1
    /\ IsSome(rpc_result.filters[rpc_result.conn])
    /\ Len(rpc_result.out) = 3
    /\ rpc_result.out[1].body.res.block.tag = "Header"
    /\ rpc_result.out[2].body.res.block.tag = "Block"
    /\ rpc_result.out[3].body.res.tag = "GetBlockRange"

(***************************************************************************)
(* C32.  Round trip and byte_size of replication messages.                 *)
(***************************************************************************)
Serialized == rpc_result.kind = "serialize"

\* C32: for every replication Request and Response, deserialize of the
\* serialized bytes gives the value back, and serialize writes byte_size
\* bytes, so a buffer of capacity byte_size is filled exactly and never grows.
C32_RoundTrip ==
    Serialized =>
        /\ IsOk(rpc_result.back)
        /\ rpc_result.back.val.val = rpc_result.value
        /\ rpc_result.back.val.src.pos = Len(rpc_result.bytes.bytes)
        /\ Len(rpc_result.bytes.bytes) = rpc_result.byte_size
        /\ rpc_result.bytes.capacity = rpc_result.byte_size

\* an AppendEntries request carrying two entries, one with data
C32_Witness ==
    /\ Serialized
    /\ rpc_result.direction = "Request"
    /\ rpc_result.value.variant = "AppendEntries"
    /\ Len(rpc_result.value.body.entries) = MaxEntries
    /\ \E i \in 1 .. MaxEntries : rpc_result.value.body.entries[i].data # <<>>
    /\ rpc_result.back.val.val = rpc_result.value

\* a LogSync response carrying entries
C32_WitnessResponse ==
    /\ Serialized
    /\ rpc_result.direction = "Response"
    /\ rpc_result.value.variant = "LogSync"
    /\ rpc_result.value.body.entries # <<>>
    /\ rpc_result.value.body.leader_commit = U64_MAX
    /\ rpc_result.back.val.val = rpc_result.value

(***************************************************************************)
(* C33.  The wire table of the replication messages.                       *)
(***************************************************************************)
Deserialized == rpc_result.kind = "deserialize"

\* the tag and the fields, in wire order, of each message
WireTable(direction, variant) ==
    IF direction = "Request"
    THEN CASE variant = "PreVote" ->
                [tag |-> 1, fields |-> <<"last_index", "last_term">>]
           [] variant = "RequestVote" ->
                [tag |-> 2, fields |-> <<"term", "last_index", "last_term">>]
           [] variant = "AppendEntries" ->
                [tag |-> 3, fields |-> <<"term", "prev_index", "prev_term",
                                         "leader_commit", "entries">>]
           [] variant = "LogSync" ->
                [tag |-> 4, fields |-> <<"last_index", "last_term">>]
    ELSE CASE variant = "PreVote" -> [tag |-> 1, fields |-> <<"approved">>]
           [] variant = "RequestVote" ->
                [tag |-> 2, fields |-> <<"current_term", "approved">>]
           [] variant = "AppendEntries" ->
                [tag |-> 3, fields |-> <<"current_term", "success", "index">>]
           [] variant = "LogSync" ->
                [tag |-> 4, fields |-> <<"leader_commit", "complete", "entries">>]

RECURSIVE BasePower(_)
BasePower(n) == IF n = 0 THEN 1 ELSE BYTE_BASE * BasePower(n - 1)

\* v in width bytes, the most significant byte first
BigEndian(v, width) ==
    [k \in 1 .. width |-> (v \div BasePower(width - k)) % BYTE_BASE]

RECURSIVE Concat(_, _)
Concat(seqs, i) == IF i > Len(seqs) THEN <<>> ELSE seqs[i] \o Concat(seqs, i + 1)

EntryBytes(e) ==
    BigEndian(e.index, 8) \o BigEndian(e.term, 8) \o BigEndian(Len(e.data), 4) \o e.data

FieldBytes(name, v) ==
    CASE name \in {"approved", "success", "complete"} -> <<IF v THEN 1 ELSE 0>>
      [] name = "entries" ->
            BigEndian(Len(v), 8) \o Concat([i \in DOMAIN v |-> EntryBytes(v[i])], 1)
      [] OTHER -> BigEndian(v, 8)

TableBytes(direction, x) ==
    LET row == WireTable(direction, x.variant)
    IN  <<row.tag>> \o Concat([i \in DOMAIN row.fields |->
                                  FieldBytes(row.fields[i], x.body[row.fields[i]])], 1)

WireMsgs(direction) == IF direction = "Request" THEN WireRequests ELSE WireResponses

EntriesVariant(direction) == IF direction = "Request" THEN "AppendEntries" ELSE "LogSync"

\* the offset of the entry count of the message that carries entries
CountOffset(direction) == IF direction = "Request" THEN 1 + 4 * 8 ELSE 1 + 8 + 1

\* buf announces more entries than its bytes can hold
ShortOfCount(direction, buf) ==
    LET at == CountOffset(direction)
        n == SumOver([k \in 1 .. 8 |-> buf[at + k] * BasePower(8 - k)], 1 .. 8)
    IN  /\ Len(buf) >= at + 8
        /\ buf[1] = WireTable(direction, EntriesVariant(direction)).tag
        /\ Len(buf) - (at + 8) < n * (8 + 8 + 4)

\* C33: every replication message is one tag byte followed by its fields in
\* the order of the wire table, integers big-endian; the tag denotes the
\* request or the response of its row according to the direction decoded;
\* deserialize returns an error, and no message, for any other tag, for a
\* payload shorter than its fields and for a payload shorter than the
\* entries it announces.
C33_WireTable ==
    /\ Serialized =>
          rpc_result.bytes.bytes = TableBytes(rpc_result.direction, rpc_result.value)
    /\ Deserialized =>
          LET buf == rpc_result.buf
              res == rpc_result.res
              direction == rpc_result.direction
          IN  /\ IsOk(res) =>
                    /\ WireTable(direction, res.val.val.variant).tag = buf[1]
                    /\ SubSeq(buf, 1, res.val.src.pos)
                          = TableBytes(direction, res.val.val)
              /\ (buf = <<>> \/ buf[1] \notin 1 .. 4) => IsErr(res)
              /\ (\E x \in WireMsgs(direction) :
                      ProperPrefix(buf, TableBytes(direction, x))) => IsErr(res)
              /\ ShortOfCount(direction, buf) => IsErr(res)

(***************************************************************************)
(* C34  Keys in wallet import format                                       *)
(***************************************************************************)
WifDone(op, type) ==
    /\ rpc_result.kind = "wif"
    /\ rpc_result.op = op
    /\ rpc_result.type = type

HasTextPrefix(s) ==
    /\ Len(s) >= Len(PUB_ADDRESS_PREFIX)
    /\ SubSeq(s, 1, Len(PUB_ADDRESS_PREFIX)) = PUB_ADDRESS_PREFIX

\* the bytes the encoded part of the string stands for
WifDecoded ==
    IF rpc_result.type = "PublicKey"
    THEN bs58_decode(SubSeq(rpc_result.s, Len(PUB_ADDRESS_PREFIX) + 1, Len(rpc_result.s)))
    ELSE bs58_decode(rpc_result.s)

WifPrefixByte == IF rpc_result.type = "PublicKey" THEN PUB_BUF_PREFIX ELSE PRIV_BUF_PREFIX

ChecksumDiffers(raw) ==
    SubSeq(raw, Len(raw) - WIF_CHECKSUM_LEN + 1, Len(raw))
        # double_sha256(SubSeq(raw, 1, Len(raw) - WIF_CHECKSUM_LEN))

\* C34: from_wif of to_wif of a public key is the key, and of a private
\* key is the same seed and key pair; from_wif answers InvalidPrefix to a
\* string whose text prefix or prefix byte is wrong, InvalidLen to one
\* whose decoded length is not 37, InvalidChecksum to one whose last four
\* bytes are not the checksum of the prefixed key, the prefix byte being
\* checked before the checksum.
C34_WifRoundTrip ==
    /\ WifDone("to_wif", "PublicKey") => rpc_result.res = Ok(rpc_result.key)
    /\ WifDone("to_wif", "PrivateKey") => rpc_result.res = Ok(rpc_result.key)
    /\ WifDone("from_wif", "PublicKey") /\ ~HasTextPrefix(rpc_result.s)
         => rpc_result.res = WifError("InvalidPrefix")
    /\ /\ rpc_result.kind = "wif"
       /\ rpc_result.op = "from_wif"
       /\ rpc_result.type = "PublicKey" => HasTextPrefix(rpc_result.s)
       /\ IsOk(WifDecoded)
       => LET raw == WifDecoded.val
          IN  /\ Len(raw) # WIF_RAW_LEN => rpc_result.res = WifError("InvalidLen")
              /\ Len(raw) = WIF_RAW_LEN /\ raw[1] # WifPrefixByte
                   => rpc_result.res = WifError("InvalidPrefix")
              /\ Len(raw) = WIF_RAW_LEN /\ raw[1] = WifPrefixByte /\ ChecksumDiffers(raw)
                   => rpc_result.res = WifError("InvalidChecksum")

\* a string whose first three bytes are not "GOD" and end inside a character
C34_Witness ==
    /\ WifDone("from_wif", "PublicKey")
    /\ ~HasTextPrefix(rpc_result.s)
    /\ rpc_result.res.tag = "Panic"

(***************************************************************************)
(* C35  The order of the checks of verify_block                            *)
(***************************************************************************)
BlockInserted == rpc_result.kind = "insert_block"

HeightFails == rpc_result.block.height # rpc_result.prev_block.height + 1

ReceiptRootFails ==
    rpc_result.block.receipt_root # calc_receipt_root(rpc_result.block.receipts)

PrevHashFails ==
    rpc_result.block.previous_hash # calc_header_hash(rpc_result.prev_block)

SignatureFails ==
    \/ rpc_result.block.signer = None
    \/ Unwrap(rpc_result.block.signer).pub_key # rpc_result.owner.minter
    \/ ~SigVerify(Unwrap(rpc_result.block.signer), calc_header_hash(rpc_result.block))

FailingReceipts == {i \in DOMAIN rpc_result.executed : IsErr(rpc_result.executed[i])}

FirstFailing == CHOOSE i \in FailingReceipts : \A j \in FailingReceipts : i <= j

\* C35: verify_block returns the error of the first failing check in the
\* order height, receipt root, previous hash, signature, then the execute_tx
\* error of the first failing receipt; a block passing all checks yields Ok.
C35_VerifyBlockOrder ==
    BlockInserted =>
        rpc_result.verified =
            IF HeightFails THEN Err(BlockErr("InvalidBlockHeight"))
            ELSE IF ReceiptRootFails THEN Err(BlockErr("InvalidReceiptRoot"))
            ELSE IF PrevHashFails THEN Err(BlockErr("InvalidPrevHash"))
            ELSE IF SignatureFails THEN Err(BlockErr("InvalidSignature"))
            ELSE IF FailingReceipts # {}
                 THEN Err(BlockErrTx(rpc_result.executed[FirstFailing].err))
            ELSE Ok(<<>>)

\* a block with the wrong previous hash and no signer
C35_Witness ==
    /\ BlockInserted
    /\ ~HeightFails
    /\ ~ReceiptRootFails
    /\ PrevHashFails
    /\ SignatureFails
    /\ rpc_result.verified = Err(BlockErr("InvalidPrevHash"))

\* a block whose second receipt is the first that fails
C35_WitnessTx ==
    /\ BlockInserted
    /\ FailingReceipts # {}
    /\ FirstFailing = 2
    /\ rpc_result.verified = Err(BlockErrTx(rpc_result.executed[2].err))

(***************************************************************************)
(* C36  Balances are never negative                                        *)
(***************************************************************************)
\* C36: after any sequence of successful insert_block calls no address
\* balance held by the indexer is negative.
C36_BalancesNonNegative == \A a \in Addrs : balances[a] >= 0

(***************************************************************************)
(* C37  The log of an accepted receipt is the log of its transaction       *)
(***************************************************************************)
\* C37: insert_block accepts a block only if the effect log of every
\* receipt equals the log execute_tx produced for the receipt's transaction
\* in verify_block.
C37_ReceiptLogIsExecuted ==
    BlockInserted /\ result = Ok(<<>>) =>
        \A i \in DOMAIN rpc_result.block.receipts :
            rpc_result.block.receipts[i].log = rpc_result.executed[i].val

(***************************************************************************)
(* C38  One signature pair counts once in OpCheckMultiSig                  *)
(***************************************************************************)
\* the pairs of the transaction that are valid signatures
ValidPairs(tx) ==
    {i \in 1 .. Len(tx.signature_pairs) : ValidPair(tx.signature_pairs[i], tx)}

\* C38: whatever keys the script lists, the same key several times
\* included, OpCheckMultiSig(t, n) with t >= 1 pushes true only if the
\* transaction carries valid signatures from at least t distinct pairs.
C38_PairCountsOnce ==
    /\ script_result.kind = "checkmultisig"
    /\ script_result.script[Len(script_result.script)].threshold >= 1
    /\ Outcome(script_result.res) = <<"Ok", TRUE, "">>
    => Cardinality(ValidPairs(script_result.tx))
          >= script_result.script[Len(script_result.script)].threshold

(***************************************************************************)
(* C39  eval terminates                                                    *)
(***************************************************************************)
EvalKinds == {"nested", "unended", "checksig", "checkmultisig", "plain"}

\* C39: every opcode fetch strictly advances the read position, the
\* position never exceeds the script length, so at most script-length
\* opcodes are fetched; and every evaluation ends with Ok or Err.
C39_EvalTerminates ==
    /\ script_result.kind = "consume_op" =>
          LET fetches == script_result.fetches
              script == script_result.script
          IN  /\ \A i \in DOMAIN fetches :
                    /\ fetches[i].res.tag = "Some" => fetches[i].res.pos > fetches[i].from
                    /\ fetches[i].res.pos >= fetches[i].from
                    /\ fetches[i].res.pos <= Len(script)
              /\ fetches[Len(fetches)].res.tag \in {"None", "Err"}
              /\ Cardinality({i \in DOMAIN fetches : fetches[i].res.tag = "Some"})
                    <= Len(script)
    /\ script_result.kind \in EvalKinds =>
          /\ script_result.res.tag \in {"Ok", "Err"}
          /\ script_result.res.pos <= Len(script_result.script)

(***************************************************************************)
(* C40  eval called again on the same engine                               *)
(***************************************************************************)
\* C40: a second eval on the same engine returns the same result as the
\* first and leaves the same final stack.
C40_EvalRepeatable ==
    script_result.kind = "again" =>
        /\ Outcome(script_result.again) = Outcome(script_result.res)
        /\ script_result.again.tag = "Ok"
        /\ script_result.again.stack = script_result.res.stack

=============================================================================
